---- MODULE Spec2Model ----
(***************************************************************************)
(* A model of the Wasmtime host-bindings generator of                      *)
(* crates/gen-wasmtime/src/lib.rs: the Wasmtime struct, the                *)
(* Generator entry points import(), export() and finish(), and the Bindgen *)
(* callbacks push_block(), finish_block(), allocate_i64_array() and emit() *)
(* that the upstream instruction stream drives.                            *)
(*                                                                         *)
(* Generated text is a sequence of tokens <<kind, arg>>.  A token keeps    *)
(* what the generated program binds, references or calls; plain Rust text  *)
(* between them is a <<"txt", ...>> token.  An operand is a text too.      *)
(***************************************************************************)
EXTENDS Integers, Sequences, FiniteSets, TLC

VARIABLES
    w,        \* the Wasmtime struct (lib.rs:10-40), one field per Rust field
    pc,       \* where the generator is: idle, inside import()/export(), finished, aborted
    call,     \* the locals of the import()/export() call in progress
    stack,    \* the operand stack of the upstream stream driver
    frames,   \* the variant/list constructs the upstream driver has open
    files,    \* the Files value finish() returned (bindings.rs)
    nemits,   \* callbacks made so far (bounded by MaxEmits)
    trace,    \* history: one record per import()/export() call, with the callbacks made in it
    ever_set, \* history: the intrinsic demand flags an emit() call has set
    run,      \* the generated code at run time: the call in progress and its host and guest
    proc      \* the rustfmt subprocess finish() spawned, and the two pipes to it

vars == <<w, pc, call, stack, frames, files, nemits, trace, ever_set, run, proc>>

----------------------------------------------------------------------------
(* Bounds *)

MaxFuncs == 2
MaxEmits == 4

Modules == {"m1", "m2"}
FuncNames == {"f", "g", "close"}
Handles == {"file", "sock"}
\* BTreeSet<String> iterates in ascending order
HandleOrder == <<"file", "sock">>

----------------------------------------------------------------------------
(* Text *)

T(s) == <<"txt", s>>

RECURSIVE Flatten(_)
Flatten(ss) == IF ss = <<>> THEN <<>> ELSE Head(ss) \o Flatten(Tail(ss))

Range(s) == {s[i] : i \in 1..Len(s)}

\* String::insert_str(pos, text): pos counts what precedes the insertion point
InsertStr(s, pos, text) == SubSeq(s, 1, pos) \o text \o SubSeq(s, pos + 1, Len(s))

\* <[String]>::join(", ")
Join(ops) == Flatten(ops)

----------------------------------------------------------------------------
(* Instructions of the upstream stream, as records of one shape:           *)
(*   op  the instruction kind                                              *)
(*   ty  the handle, flags, variant or list element type it names ("" none)*)
(*   n   nth / amt / number of cases, fields, casts, params                *)
(*   k   nresults / number of results                                      *)
(*   fn  malloc / free / callee name ("" is None), the variant's shape, or  *)
(*       the integer type int_repr() names for a flags type                *)

Ins(op, ty, n, k, fn) == [op |-> op, ty |-> ty, n |-> n, k |-> k, fn |-> fn]

TopAsOps == {"I64FromU64", "I32FromUsize", "I32FromChar", "I32FromU8", "I32FromS8",
             "I32FromChar8", "I32FromU16", "I32FromS16", "I32FromU32",
             "U32FromI32", "UsizeFromI32", "U64FromI64"}
PassOps == {"F32FromIf32", "F64FromIf64", "If32FromF32", "If64FromF64",
            "I64FromS64", "I32FromS32", "S32FromI32", "S64FromI64"}
TryFromOps == {"S8FromI32", "Char8FromI32", "U8FromI32", "S16FromI32", "U16FromI32"}
LoadOps == {"I32Load", "I32Load8U", "I32Load8S", "I32Load16U", "I32Load16S",
            "I64Load", "F32Load", "F64Load"}
StoreOps == {"I32Store", "I64Store", "F32Store", "F64Store", "I32Store8", "I32Store16"}
UnimplementedOps == {"I32FromBorrowedHandle", "HandleOwnedFromI32"}
WitxPointerOps == {"PointerFromI32", "ConstPointerFromI32"}
WitxOtherOps == {"I32FromPointer", "I32FromConstPointer", "ReuseReturn", "AddrOf",
                 "WitxLoad", "WitxStore"}

\* Instruction::operands_len of the upstream instruction set
InArity(i) ==
    CASE i.op \in {"GetArg", "I32Const", "ConstZero", "VariantPayload",
                   "IterElem", "IterBasePointer", "ReuseReturn"} -> 0
      [] i.op \in StoreOps \cup {"ListCanonLift", "ListLift", "WitxStore"} -> 2
      [] i.op \in {"Bitcasts", "RecordLift", "CallWasm", "CallInterface", "Return"} -> i.n
      [] OTHER -> 1

\* Instruction::results_len of the upstream instruction set
OutArity(i) ==
    CASE i.op \in StoreOps \cup {"Return", "WitxStore"} -> 0
      [] i.op \in {"ListCanonLower", "ListLower"} -> 2
      [] i.op \in {"ConstZero", "Bitcasts", "RecordLower"} -> i.n
      [] i.op \in {"VariantLower", "CallWasm", "CallInterface"} -> i.k
      [] OTHER -> 1

----------------------------------------------------------------------------
(* External services the generator consumes *)

\* Types::is_dtor_func: the function is the destructor of a handle type
IsDtorFunc(name) == name = "close"

\* heck::CamelCase::to_camel_case of the type names the streams use
CamelCase(name) ==
    CASE name = "perms" -> "Perms"
      [] name = "open_flags" -> "OpenFlags"
      [] name = "errno" -> "Errno"
      [] name = "file" -> "File"
      [] name = "sock" -> "Sock"

\* TypeRef::mem_size_align of a canonical list element
ElemSize(ty) == CASE ty = "u8" -> 1 [] ty = "i32" -> 4 [] ty = "f64" -> 8 [] OTHER -> 4
ElemAlign(ty) == ElemSize(ty)

\* TypePrint::let_results: binds amt fresh result names and opens a let
LetResults(s, amt) ==
    CASE amt = 0 -> [s |-> s, results |-> <<>>]
      [] amt = 1 ->
            [s |-> [s EXCEPT !.tmp = @ + 1,
                             !.src = @ \o <<T("let"), <<"result", s.tmp>>, T("=")>>],
             results |-> << << <<"result", s.tmp>> >> >>]
      [] OTHER ->
            [s |-> [s EXCEPT !.tmp = @ + 1,
                             !.src = @ \o <<T("let")>>
                                       \o [j \in 1..amt |-> <<"result_", <<s.tmp, j>>>>]
                                       \o <<T("=")>>],
             results |-> [j \in 1..amt |-> << <<"result_", <<s.tmp, j>>>> >>]]

\* witx_bindgen_gen_rust::bitcast: one reinterpreted expression per cast
BitcastResults(ops) == [i \in 1..Len(ops) |-> <<T("bitcast(")>> \o ops[i] \o <<T(")")>>]

\* TypePrint::record_lower: one field projection per member
RecordLowerResults(i, op) == [j \in 1..i.n |-> op \o << <<"member", j>> >>]

\* TypePrint::record_lift: the record rebuilt from its fields
RecordLiftResults(i, ops) == << <<T("record{")>> \o Join(ops) \o <<T("}")>> >>

\* TypePrint::variant_lift_case: the case's constructor around its block
VariantLiftCase(i, j, block) == << <<"case", j>> >> \o block

\* TypePrint::variant_lower: binds nresults names to a match over the cases' blocks
VariantLower(s, i, op, blocks) ==
    LET lr == LetResults(s, i.k)
    IN  [s |-> [lr.s EXCEPT !.src = @ \o <<T("match")>> \o op
                                     \o Flatten([j \in 1..Len(blocks) |->
                                                    << <<"arm", j>> >> \o blocks[j]])
                                     \o <<T("};")>>],
         results |-> lr.results]

----------------------------------------------------------------------------
(* impl Bindgen for Wasmtime *)

\* what one callback returns: the struct after it, the results it pushed, and
\* whether it returned at all (FALSE: a panic, which ends the generator)
R(s, results) == [s |-> s, results |-> results, ok |-> TRUE]
Panic(s) == [s |-> s, results |-> <<>>, ok |-> FALSE]

\* TypePrint::tmp (lib.rs:231-235) is inlined where the code calls it:
\* the value used is s.tmp and the struct keeps s.tmp + 1

\* lib.rs:792-795
PushBlockOp(s) == [s EXCEPT !.block_storage = Append(@, s.src), !.src = <<>>]

\* finish_block() that leaves the saved text on the block stack
FinishBlockKeepStorage(s, operands) ==
    LET expr == CASE Len(operands) = 0 -> <<T("()")>>
                  [] Len(operands) = 1 -> operands[1]
                  [] OTHER -> <<T("(")>> \o Join(operands) \o <<T(")")>>
        block == IF s.src = <<>> THEN expr
                 ELSE <<T("{")>> \o s.src \o <<T(";")>> \o expr \o <<T("}")>>
    IN  [s EXCEPT !.src = s.block_storage[Len(s.block_storage)],
                  !.blocks = Append(@, block)]

\* lib.rs:797-810
FinishBlockOp(s, operands) ==
    LET to_restore == s.block_storage[Len(s.block_storage)]
        src == s.src
        expr == CASE Len(operands) = 0 -> <<T("()")>>
                  [] Len(operands) = 1 -> operands[1]
                  [] OTHER -> <<T("(")>> \o Join(operands) \o <<T(")")>>
        block == IF src = <<>> THEN expr
                 ELSE <<T("{")>> \o src \o <<T(";")>> \o expr \o <<T("}")>>
    IN  [s EXCEPT !.block_storage = SubSeq(@, 1, Len(@) - 1),
                  !.src = to_restore,
                  !.blocks = Append(@, block)]

\* lib.rs:816-834
AllocateI64Array(s, amt) ==
    IF s.cleanup # <<>> THEN Panic(s)
    ELSE LET ptr == <<"ptr", s.tmp>>
         IN  R([s EXCEPT !.tmp = @ + 1,
                         !.needs_functions =
                             ("witx_free" :> "Free") @@ ("witx_malloc" :> "Malloc") @@ @,
                         !.src = @ \o <<T("let"), ptr, T("="), <<"self", "witx_malloc">>,
                                        <<"size", amt * 8>>, <<"align", 8>>, T("?;")>>,
                         !.cleanup = << <<<<"self", "witx_free">>, ptr,
                                          <<"size", amt * 8>>, <<"align", 8>>, T("?;")>> >>],
               << <<ptr>> >>)

\* handle instructions that look the handle up in a destructor as well
EmitHandleNeverRemoves(s, i, operands) ==
    CASE i.op = "I32FromOwnedHandle" ->
            R([s EXCEPT !.all_needed_handles = @ \cup {i.ty}],
              << << <<"m_table", i.ty>>, T("insert(") >> \o operands[1]
                    \o <<T(") as i32")>> >>)
      [] i.op = "HandleBorrowedFromI32" ->
            R([s EXCEPT !.handles_for_func = @ \cup {i.ty}],
              << << <<"access", i.ty>>, T("get(") >> \o operands[1]
                    \o <<T("invalid handle index")>> >>)
      [] OTHER -> Panic(s)

\* lib.rs:913-941
EmitHandle(s, i, operands) ==
    CASE i.op = "I32FromOwnedHandle" ->
            R([s EXCEPT !.all_needed_handles = @ \cup {i.ty}],
              << << <<"m_table", i.ty>>, T("insert(") >> \o operands[1]
                    \o <<T(") as i32")>> >>)
      [] i.op = "HandleBorrowedFromI32" /\ s.is_dtor ->
            R([s EXCEPT !.all_needed_handles = @ \cup {i.ty}],
              << << <<"m_table", i.ty>>, T("remove(") >> \o operands[1]
                    \o <<T("failed to remove handle")>> >>)
      [] i.op = "HandleBorrowedFromI32" /\ ~s.is_dtor ->
            R([s EXCEPT !.handles_for_func = @ \cup {i.ty}],
              << << <<"access", i.ty>>, T("get(") >> \o operands[1]
                    \o <<T("invalid handle index")>> >>)
      [] OTHER -> Panic(s)

\* lib.rs:945-965
EmitBitflags(s, i, operands) ==
    CASE i.op = "I32FromBitflags" -> R(s, << operands[1] \o <<T(".bits as i32")>> >>)
      [] i.op = "I64FromBitflags" -> R(s, << operands[1] \o <<T(".bits as i64")>> >>)
      [] OTHER ->
            \* validate_flags(i64::from(operand), Name::all().bits() as i64, "Name",
            \*                |b| Name { bits: b as ty })?
            R([s EXCEPT !.needs_validate_flags = TRUE],
              << << <<"call", "validate_flags">>, T("i64::from(") >> \o operands[1]
                    \o << T(")"), <<"all", CamelCase(i.ty)>>, T("as i64"),
                          <<"flags", CamelCase(i.ty)>>, <<"bits as", i.fn>> >> >>)

\* the name of the type as the interface spells it, not camel-cased
VariantNameRaw(i) ==
    CASE i.ty # "" -> i.ty
      [] i.fn = "bool" -> "bool"
      [] i.fn = "expected" -> "Result"
      [] i.fn = "option" -> "Option"
      [] OTHER -> ""

\* lib.rs:998-1009: the name the invalid-discriminant trap carries
VariantName(i) ==
    CASE i.ty # "" -> CamelCase(i.ty)
      [] i.fn = "bool" -> "bool"
      [] i.fn = "expected" -> "Result"
      [] i.fn = "option" -> "Option"
      [] OTHER -> ""

\* EmitVariant draining the first cases-many blocks instead of the last
EmitVariantTakesFirst(s, i, operands) ==
    IF Len(s.blocks) < i.n THEN Panic(s)
    ELSE
    LET keep == SubSeq(s.blocks, i.n + 1, Len(s.blocks))
        blocks == SubSeq(s.blocks, 1, i.n)
        s1 == [s EXCEPT !.blocks = keep]
    IN  CASE i.op = "VariantLower" ->
                LET vl == VariantLower(s1, i, operands[1], blocks)
                IN  R(vl.s, vl.results)
          [] i.op = "VariantLift" /\ VariantName(i) = "" -> Panic(s1)
          [] OTHER ->
                R([s1 EXCEPT !.needs_invalid_variant = TRUE],
                  << <<T("match")>> \o operands[1]
                        \o Flatten([j \in 1..i.n |->
                              << <<"arm", j - 1>> >> \o VariantLiftCase(i, j, blocks[j])])
                        \o << <<"call", "invalid_variant">>, <<"vname", VariantName(i)>> >> >>)

\* lib.rs:976-1016
EmitVariant(s, i, operands) ==
    IF Len(s.blocks) < i.n THEN Panic(s)
    ELSE
    LET keep == SubSeq(s.blocks, 1, Len(s.blocks) - i.n)
        blocks == SubSeq(s.blocks, Len(s.blocks) - i.n + 1, Len(s.blocks))
        s1 == [s EXCEPT !.blocks = keep]
    IN  CASE i.op = "VariantLower" ->
                LET vl == VariantLower(s1, i, operands[1], blocks)
                IN  R(vl.s, vl.results)
          [] i.op = "VariantLift" /\ VariantName(i) = "" -> Panic(s1)
          [] OTHER ->
                R([s1 EXCEPT !.needs_invalid_variant = TRUE],
                  << <<T("match")>> \o operands[1]
                        \o Flatten([j \in 1..i.n |->
                              << <<"arm", j - 1>> >> \o VariantLiftCase(i, j, blocks[j])])
                        \o << <<"call", "invalid_variant">>, <<"vname", VariantName(i)>> >> >>)

\* lib.rs:1018-1065
EmitListCanonLower(s, i, operands) ==
    IF i.fn = "" THEN Panic(s)
    ELSE
    LET size == IF i.ty = "char" THEN 1 ELSE ElemSize(i.ty)
        align == IF i.ty = "char" THEN 1 ELSE ElemAlign(i.ty)
        val == <<"vec", s.tmp>>
        ptr == <<"ptr", s.tmp>>
    IN  R([s EXCEPT !.needs_functions = (i.fn :> "Malloc") @@ @,
                    !.tmp = @ + 1,
                    !.src = @ \o <<T("let"), val, T("=")>> \o operands[1]
                              \o <<T("let"), ptr, T("="), <<"func", i.fn>>, val,
                                   <<"size", size>>, <<"align", align>>, T("?;")>>
                              \o << <<"call", "store">>, <<"ref", "memory">>, ptr,
                                    <<"call", "slice_as_bytes">>, val, T("?;") >>,
                    !.needs_store = TRUE,
                    !.needs_memory = TRUE,
                    !.needs_slice_as_bytes = TRUE],
          << <<ptr>>, <<val, T(".len() as i32")>> >>)

\* lib.rs:1067-1120
EmitListCanonLift(s, i, operands) ==
    IF i.fn # "" THEN
        LET stringify == i.ty = "char"
            align == IF i.ty = "char" THEN 1 ELSE ElemAlign(i.ty)
            result == << <<"call", "copy_slice">>, <<"ref", "memory">>, <<"func", i.fn>> >>
                      \o operands[1] \o operands[2] \o << <<"align", align>> >>
        IN  R([s EXCEPT !.needs_memory = TRUE,
                        !.needs_copy_slice = TRUE,
                        !.needs_functions = (i.fn :> "Free") @@ @],
              << IF stringify
                 THEN <<T("String::from_utf8(")>> \o result \o <<T("invalid utf-8")>>
                 ELSE result >>)
    ELSE
        R([s EXCEPT !.needs_guest_memory = TRUE],
          << <<T("GuestPtr::new("), <<"ref", "guest_memory">>>>
                \o operands[1] \o operands[2] >>)

\* lib.rs:1122-1159
EmitListLower(s, i, operands) ==
    IF i.fn = "" \/ s.blocks = <<>> THEN Panic(s)
    ELSE
    LET body == s.blocks[Len(s.blocks)]
        vec == <<"vec", s.tmp>>
        result == <<"result", s.tmp>>
        len == <<"len", s.tmp>>
    IN  R([s EXCEPT !.blocks = SubSeq(@, 1, Len(@) - 1),
                    !.tmp = @ + 1,
                    !.needs_functions = (i.fn :> "Malloc") @@ @,
                    !.src = @ \o <<T("let"), vec, T("=")>> \o operands[1]
                              \o <<T("let"), len, T("="), vec, T(".len() as i32;")>>
                              \o <<T("let"), result, T("="), <<"func", i.fn>>, len,
                                   <<"size", ElemSize(i.ty)>>, <<"align", ElemAlign(i.ty)>>,
                                   T("?;")>>
                              \o <<T("for (i, e) in"), vec, T("let base ="), result>>
                              \o body \o <<T("}")>>],
          << <<result>>, <<len>> >>)

\* lib.rs:1161-1198
EmitListLift(s, i, operands) ==
    IF s.blocks = <<>> THEN Panic(s)
    ELSE
    LET body == s.blocks[Len(s.blocks)]
        len == <<"len", s.tmp>>
        base == <<"base", s.tmp>>
        result == <<"result", s.tmp>>
        free == IF i.fn = "" THEN <<>>
                ELSE << <<"func", i.fn>>, base, len, <<"size", ElemSize(i.ty)>>,
                        <<"align", ElemAlign(i.ty)>>, T("?;") >>
    IN  R([s EXCEPT !.blocks = SubSeq(@, 1, Len(@) - 1),
                    !.tmp = @ + 1,
                    !.src = @ \o <<T("let"), len, T("=")>> \o operands[2]
                              \o <<T("let"), base, T("=")>> \o operands[1]
                              \o <<T("let mut"), result, T("= Vec::with_capacity"), len>>
                              \o <<T("for i in 0.."), len, T("let base ="), base,
                                   result, T(".push(")>> \o body \o <<T(");}")>>
                              \o free,
                    !.needs_functions = IF i.fn = "" THEN @ ELSE (i.fn :> "Free") @@ @],
          << <<result>> >>)

\* lib.rs:1204-1225
EmitCall(s, i, operands) ==
    LET lr == LetResults(s, i.k)
    IN  IF i.op = "CallWasm"
        THEN R([lr.s EXCEPT !.src = @ \o << <<"self", i.fn>>, T("(") >> \o Join(operands)
                                       \o <<T(")?;")>>],
               lr.results)
        ELSE R([lr.s EXCEPT !.src = @ \o << <<"m_call", i.fn>>, T("(") >> \o Join(operands)
                                       \o <<T(");")>>],
               lr.results)

\* Return that emits the cleanup fragment and leaves it set
EmitReturnKeepCleanup(s, i, operands) ==
    LET result == CASE i.n = 0 -> <<T("Ok(())")>>
                    [] i.n = 1 -> <<T("Ok(")>> \o operands[1] \o <<T(")")>>
                    [] OTHER -> <<T("Ok((")>> \o Join(operands) \o <<T("))")>>
    IN  IF s.cleanup # <<>>
        THEN R([s EXCEPT !.src = @ \o <<T("let ret =")>> \o result \o <<T(";")>>
                                   \o s.cleanup[1] \o <<T("ret")>>],
               <<>>)
        ELSE R([s EXCEPT !.src = @ \o result], <<>>)

\* Return that runs the cleanup fragment ahead of the result expressions
EmitReturnFreesFirst(s, i, operands) ==
    LET result == CASE i.n = 0 -> <<T("Ok(())")>>
                    [] i.n = 1 -> <<T("Ok(")>> \o operands[1] \o <<T(")")>>
                    [] OTHER -> <<T("Ok((")>> \o Join(operands) \o <<T("))")>>
    IN  IF s.cleanup # <<>>
        THEN R([s EXCEPT !.cleanup = <<>>,
                         !.src = @ \o s.cleanup[1] \o <<T("let ret =")>> \o result
                                   \o <<T(";")>> \o <<T("ret")>>],
               <<>>)
        ELSE R([s EXCEPT !.src = @ \o result], <<>>)

\* lib.rs:1227-1243
EmitReturn(s, i, operands) ==
    LET result == CASE i.n = 0 -> <<T("Ok(())")>>
                    [] i.n = 1 -> <<T("Ok(")>> \o operands[1] \o <<T(")")>>
                    [] OTHER -> <<T("Ok((")>> \o Join(operands) \o <<T("))")>>
    IN  IF s.cleanup # <<>>
        THEN R([s EXCEPT !.cleanup = <<>>,
                         !.src = @ \o <<T("let ret =")>> \o result \o <<T(";")>>
                                   \o s.cleanup[1] \o <<T("ret")>>],
               <<>>)
        ELSE R([s EXCEPT !.src = @ \o result], <<>>)

\* lib.rs:1245-1308
EmitLoad(s, i, operands) ==
    R([s EXCEPT !.needs_memory = TRUE, !.needs_load = TRUE],
      << << <<"call", "load">>, <<"ref", "memory">> >> \o operands[1]
            \o << <<"off", i.n>>, T(i.op) >> >>)

\* a store that pushes the unit value of the statement it wrote
EmitStorePushesUnit(s, i, operands) ==
    R([s EXCEPT !.needs_memory = TRUE,
                !.needs_store = TRUE,
                !.src = @ \o << <<"call", "store">>, <<"ref", "memory">> >> \o operands[2]
                          \o << <<"off", i.n>> >> \o operands[1] \o <<T(i.op), T("?;")>>],
      << <<T("()")>> >>)

\* lib.rs:1309-1335
EmitStore(s, i, operands) ==
    R([s EXCEPT !.needs_memory = TRUE,
                !.needs_store = TRUE,
                !.src = @ \o << <<"call", "store">>, <<"ref", "memory">> >> \o operands[2]
                          \o << <<"off", i.n>> >> \o operands[1] \o <<T(i.op), T("?;")>>],
      <<>>)

\* lib.rs:836-1347
Emit(s, i, operands) ==
    CASE i.op = "GetArg" ->
            IF i.n < Len(s.params) THEN R(s, <<s.params[i.n + 1]>>) ELSE Panic(s)
      [] i.op = "I32Const" -> R(s, << << <<"i32", i.n>> >> >>)
      [] i.op = "ConstZero" -> R(s, [j \in 1..i.n |-> <<T("0")>>])
      [] i.op \in TopAsOps ->
            R(s, << operands[Len(operands)] \o <<T("as"), T(i.op)>> >>)
      [] i.op \in PassOps -> R(s, << operands[Len(operands)] >>)
      [] i.op \in TryFromOps ->
            R([s EXCEPT !.needs_bad_int = TRUE],
              << <<T("try_from(")>> \o operands[1] \o << <<"call", "bad_int">> >> >>)
      [] i.op = "CharFromI32" ->
            R([s EXCEPT !.needs_char_from_i32 = TRUE],
              << << <<"call", "char_from_i32">> >> \o operands[1] \o <<T(")?")>> >>)
      [] i.op = "Bitcasts" -> R(s, BitcastResults(operands))
      [] i.op \in {"I32FromOwnedHandle", "HandleBorrowedFromI32"} ->
            EmitHandle(s, i, operands)
      [] i.op \in UnimplementedOps -> Panic(s)
      [] i.op \in {"I32FromBitflags", "I64FromBitflags", "BitflagsFromI32",
                   "BitflagsFromI64"} -> EmitBitflags(s, i, operands)
      [] i.op = "RecordLower" -> R(s, RecordLowerResults(i, operands[1]))
      [] i.op = "RecordLift" -> R(s, RecordLiftResults(i, operands))
      [] i.op = "VariantPayload" -> R(s, << <<T("e")>> >>)
      [] i.op \in {"VariantLower", "VariantLift"} -> EmitVariant(s, i, operands)
      [] i.op = "ListCanonLower" -> EmitListCanonLower(s, i, operands)
      [] i.op = "ListCanonLift" -> EmitListCanonLift(s, i, operands)
      [] i.op = "ListLower" -> EmitListLower(s, i, operands)
      [] i.op = "ListLift" -> EmitListLift(s, i, operands)
      [] i.op = "IterElem" -> R(s, << <<T("e")>> >>)
      [] i.op = "IterBasePointer" -> R(s, << <<T("base")>> >>)
      [] i.op \in {"CallWasm", "CallInterface"} -> EmitCall(s, i, operands)
      [] i.op = "Return" -> EmitReturn(s, i, operands)
      [] i.op \in LoadOps -> EmitLoad(s, i, operands)
      [] i.op \in StoreOps -> EmitStore(s, i, operands)
      [] i.op \in WitxPointerOps -> R(s, [j \in 1..OutArity(i) |-> <<T("XXX")>>])
      [] OTHER -> Panic(s)

----------------------------------------------------------------------------
(* impl Generator for Wasmtime: import() and export() *)

\* the interface functions of the document: name and number of wasm-level
\* parameters and results of its signature (InterfaceFunc::wasm_signature)
Funcs == {[name |-> "f", nparams |-> 1, nresults |-> 1],
          [name |-> "g", nparams |-> 2, nresults |-> 0],
          [name |-> "close", nparams |-> 1, nresults |-> 0]}

NoFunc == [name |-> "", nparams |-> 0, nresults |-> 0]
NoCall == [dir |-> "none", module |-> "", func |-> NoFunc, prev |-> <<>>,
           trait_signature |-> <<>>, pos |-> 0]

\* HashMap iteration order is unspecified: every enumeration of the keys
Orders(S) == {o \in [1..Cardinality(S) -> S] : \A x \in S : \E j \in DOMAIN o : o[j] = x}

\* the handles of a BTreeSet in iteration order
RECURSIVE SortedHandles(_, _)
SortedHandles(hs, order) ==
    IF order = <<>> THEN <<>>
    ELSE (IF Head(order) \in hs THEN <<Head(order)>> ELSE <<>>)
         \o SortedHandles(hs, Tail(order))

\* TypePrint::print_signature (lib.rs:410-422): the trait method of the function
TraitSignature(func, is_dtor) ==
    << <<"sig", func.name>>, <<"mode", IF is_dtor THEN "Owned" ELSE "LeafBorrowed">> >>

\* import() without params.truncate(0): the names of the previous function stay
ImportEnterKeepParams(s, module, func) ==
    LET is_dtor == IsDtorFunc(func.name)
        header == <<T("move |_caller")>> \o [j \in 1..func.nparams |-> <<"param", j - 1>>]
                  \o <<T("| -> Result<_, wasmtime::Trap> {")>>
    IN  [s |-> [s EXCEPT !.is_dtor = is_dtor,
                         !.in_trait = FALSE,
                         !.params = @ \o [j \in 1..func.nparams |-> << <<"arg", j - 1>> >>],
                         !.src = header],
         call |-> [dir |-> "import", module |-> module, func |-> func,
                   prev |-> s.src,
                   trait_signature |-> TraitSignature(func, is_dtor),
                   pos |-> Len(header)]]

\* lib.rs:406-436: import() up to func.call()
ImportEnter(s, module, func) ==
    LET is_dtor == IsDtorFunc(func.name)
        header == <<T("move |_caller")>> \o [j \in 1..func.nparams |-> <<"param", j - 1>>]
                  \o <<T("| -> Result<_, wasmtime::Trap> {")>>
    IN  [s |-> [s EXCEPT !.is_dtor = is_dtor,
                         !.in_trait = FALSE,
                         !.params = [j \in 1..func.nparams |-> << <<"arg", j - 1>> >>],
                         !.src = header],
         call |-> [dir |-> "import", module |-> module, func |-> func,
                   prev |-> s.src,
                   trait_signature |-> TraitSignature(func, is_dtor),
                   pos |-> Len(header)]]

\* lib.rs:440-451
ImportGuestMemory(s, pos) ==
    IF s.needs_guest_memory
    THEN [s EXCEPT !.src = InsertStr(@, pos,
                              << <<"let", "guest_memory">>, <<"ref", "memory">>,
                                 <<"m_call", "borrow_checker">> >>),
                   !.needs_borrow_checker = TRUE]
    ELSE s

\* import() that binds memory only when the body itself touched memory
ImportMemoryForBodyOnly(s, pos) ==
    IF s.needs_memory
    THEN [s EXCEPT !.src = InsertStr(@, pos,
                              << <<"let", "memory">>, <<"call", "get_memory">> >>),
                   !.needs_get_memory = TRUE]
    ELSE s

\* lib.rs:452-456
ImportMemory(s, pos) ==
    IF s.needs_memory \/ s.needs_guest_memory
    THEN [s EXCEPT !.src = InsertStr(@, pos,
                              << <<"let", "memory">>, <<"call", "get_memory">> >>),
                   !.needs_get_memory = TRUE]
    ELSE s

\* import() that leaves the two memory flags set for the next function
ImportKeepMemory(s) == s

\* lib.rs:458-459
ImportResetMemory(s) == [s EXCEPT !.needs_memory = FALSE, !.needs_guest_memory = FALSE]

\* lib.rs:461-473 (see ImportHandles)
RECURSIVE InsertHandles(_, _, _)
InsertHandles(s, pos, hs) ==
    IF hs = <<>> THEN s
    ELSE InsertHandles(
            [s EXCEPT !.src = InsertStr(@, pos,
                                 << <<"let_access", Head(hs)>>, <<"m_table", Head(hs)>> >>),
                      !.all_needed_handles = @ \cup {Head(hs)}],
            pos, Tail(hs))

\* import() that binds the access tokens and forgets to register the handles
ImportHandlesUnregistered(s, pos) ==
    [InsertHandles(s, pos, SortedHandles(s.handles_for_func, HandleOrder))
        EXCEPT !.handles_for_func = {},
               !.all_needed_handles = s.all_needed_handles]

\* lib.rs:461-473
ImportHandles(s, pos) ==
    IF Cardinality(s.handles_for_func) > 0
    THEN [InsertHandles(s, pos, SortedHandles(s.handles_for_func, HandleOrder))
            EXCEPT !.handles_for_func = {}]
    ELSE s

\* lib.rs:475-488, for the order in which drain() yields the entries
RECURSIVE InsertFuncs(_, _, _)
InsertFuncs(s, pos, names) ==
    IF names = <<>> THEN s
    ELSE InsertFuncs(
            [s EXCEPT !.src = InsertStr(@, pos,
                                 << <<"call", "get_func">>, <<"export", Head(names)>>,
                                    <<"let_func", Head(names)>>,
                                    <<"cvt", s.needs_functions[Head(names)]>> >>),
                      !.needs_get_func = TRUE],
            pos, Tail(names))

ImportFuncs(s, pos, order) ==
    [InsertFuncs(s, pos, order) EXCEPT !.needs_functions = <<>>]

\* import() that inserts a fresh list for the module instead of pushing to it
ImportRecordReplace(s, c) ==
    LET rec == [name |-> c.func.name, closure |-> s.src,
                trait_signature |-> c.trait_signature]
    IN  [s EXCEPT !.src = c.prev,
                  !.imports = (c.module :> <<rec>>) @@ @]

\* lib.rs:490-498
ImportRecord(s, c) ==
    LET closure == s.src
        rec == [name |-> c.func.name, closure |-> closure,
                trait_signature |-> c.trait_signature]
    IN  [s EXCEPT !.src = c.prev,
                  !.imports = IF c.module \in DOMAIN @
                              THEN [@ EXCEPT ![c.module] = Append(@, rec)]
                              ELSE (c.module :> <<rec>>) @@ @]

\* import() that inserts the memory binding before the guest_memory one, so
\* that the text reads guest_memory first
ImportLeaveMemoryFirst(s, c, order) ==
    LET s1 == [s EXCEPT !.src = @ \o <<T("}")>>]
        s2 == ImportMemory(s1, c.pos)
        s3 == ImportGuestMemory(s2, c.pos)
        s4 == ImportResetMemory(s3)
        s5 == ImportHandles(s4, c.pos)
        s6 == ImportFuncs(s5, c.pos, order)
        s7 == ImportRecord(s6, c)
    IN  [s |-> s7, ok |-> s7.cleanup = <<>>]

\* lib.rs:438-499: import() after func.call() returned
ImportLeave(s, c, order) ==
    LET s1 == [s EXCEPT !.src = @ \o <<T("}")>>]
        s2 == ImportGuestMemory(s1, c.pos)
        s3 == ImportMemory(s2, c.pos)
        s4 == ImportResetMemory(s3)
        s5 == ImportHandles(s4, c.pos)
        s6 == ImportFuncs(s5, c.pos, order)
        s7 == ImportRecord(s6, c)
    IN  [s |-> s7, ok |-> s7.cleanup = <<>>]

\* lib.rs:502-510: export() up to func.call()
\* (print_docs_and_params yields one parameter name per wasm-level parameter here)
ExportEnter(s, module, func) ==
    LET header == << <<"method", func.name>> >>
                  \o [j \in 1..func.nparams |-> <<"param", j - 1>>]
                  \o <<T("-> Result<"), <<"results", func.nresults>>,
                       T(", wasmtime::Trap> {")>>
    IN  [s |-> [s EXCEPT !.is_dtor = IsDtorFunc(func.name),
                         !.params = [j \in 1..func.nparams |-> << <<"arg", j - 1>> >>],
                         !.src = header],
         call |-> [dir |-> "export", module |-> module, func |-> func,
                   prev |-> s.src, trait_signature |-> <<>>, pos |-> Len(header)]]

\* Exports::default (lib.rs:53-57)
NoExports == [fields |-> <<>>, funcs |-> <<>>]

\* BTreeMap::insert / HashMap::insert: the new value replaces an old one
MapInsert(m, key, v) == (key :> v) @@ m

\* lib.rs:513-516
ExportEntry(s, module) ==
    IF module \in DOMAIN s.exports THEN s
    ELSE [s EXCEPT !.exports = MapInsert(@, module, NoExports)]

\* export() that binds memory and leaves needs_memory set for the next function
ExportMemoryKeepFlag(s, c) ==
    IF s.needs_memory
    THEN [s EXCEPT !.src = InsertStr(@, c.pos,
                              << <<"let", "memory">>, <<"self", "memory">> >>),
                   !.exports[c.module].fields =
                        MapInsert(@, "memory",
                                  << <<"ty", "Memory">>, <<"get_memory", "memory">> >>),
                   !.needs_get_memory = TRUE]
    ELSE s

\* lib.rs:519-530
ExportMemory(s, c) ==
    IF s.needs_memory
    THEN [s EXCEPT !.needs_memory = FALSE,
                   !.src = InsertStr(@, c.pos,
                              << <<"let", "memory">>, <<"self", "memory">> >>),
                   !.exports[c.module].fields =
                        MapInsert(@, "memory",
                                  << <<"ty", "Memory">>, <<"get_memory", "memory">> >>),
                   !.needs_get_memory = TRUE]
    ELSE s

\* lib.rs:533-539, for the order in which drain() yields the entries
RECURSIVE ExportInsertFuncs(_, _, _)
ExportInsertFuncs(s, c, names) ==
    IF names = <<>> THEN s
    ELSE ExportInsertFuncs(
            [s EXCEPT !.src = InsertStr(@, c.pos,
                                 << <<"let_func", Head(names)>>, <<"self", Head(names)>> >>),
                      !.exports[c.module].fields =
                           MapInsert(@, Head(names),
                                     << <<"ty", s.needs_functions[Head(names)]>>,
                                        <<"get_func", Head(names)>> >>),
                      !.needs_get_func = TRUE],
            c, Tail(names))

ExportFuncs(s, c, order) ==
    [ExportInsertFuncs(s, c, order) EXCEPT !.needs_functions = <<>>]

\* export() that pushes the method and leaves its text in the buffer
ExportMethodKeepsSrc(s, c) ==
    [s EXCEPT !.exports[c.module].funcs = Append(@, s.src)]

\* lib.rs:540
ExportMethod(s, c) ==
    [s EXCEPT !.exports[c.module].funcs = Append(@, s.src), !.src = c.prev]

\* lib.rs:545-579
ExportFuncField(s, c) ==
    LET func == c.func IN
    [s EXCEPT !.exports[c.module].fields =
                   MapInsert(@, func.name,
                             << <<"boxfn", <<func.nparams, func.nresults>>>>,
                                <<"get_func", func.name>> >>),
              !.needs_get_func = TRUE]

\* export() without the assertion on needs_guest_memory
ExportLeaveUnchecked(s, c, order) ==
    LET s1 == ExportEntry([s EXCEPT !.src = @ \o <<T("}")>>], c.module)
        s2 == ExportMemory(s1, c)
    IN  IF Cardinality(s2.handles_for_func) # 0 THEN [s |-> s2, ok |-> FALSE]
        ELSE LET s3 == ExportFuncs(s2, c, order)
                 s4 == ExportMethod(s3, c)
                 s5 == ExportFuncField(s4, c)
             IN  [s |-> s5, ok |-> c.func.nresults < 2]

\* lib.rs:511-580: export() after func.call() returned
ExportLeave(s, c, order) ==
    LET s1 == ExportEntry([s EXCEPT !.src = @ \o <<T("}")>>], c.module)
    IN  IF s1.needs_guest_memory THEN [s |-> s1, ok |-> FALSE]
        ELSE LET s2 == ExportMemory(s1, c)
             IN  IF Cardinality(s2.handles_for_func) # 0 THEN [s |-> s2, ok |-> FALSE]
                 ELSE LET s3 == ExportFuncs(s2, c, order)
                          s4 == ExportMethod(s3, c)
                          s5 == ExportFuncField(s4, c)
                      IN  [s |-> s5, ok |-> c.func.nresults < 2]

----------------------------------------------------------------------------
(* finish() *)

\* the eight intrinsic helpers, in the order print_intrinsics tests their flags
IntrinsicOrder == <<"store", "load", "char_from_i32", "invalid_variant", "bad_int",
                    "validate_flags", "slice_as_bytes", "copy_slice">>
Intrinsics == Range(IntrinsicOrder)

\* the demand flag of a helper
Needs(s, h) ==
    CASE h = "store" -> s.needs_store
      [] h = "load" -> s.needs_load
      [] h = "char_from_i32" -> s.needs_char_from_i32
      [] h = "invalid_variant" -> s.needs_invalid_variant
      [] h = "bad_int" -> s.needs_bad_int
      [] h = "validate_flags" -> s.needs_validate_flags
      [] h = "slice_as_bytes" -> s.needs_slice_as_bytes
      [] h = "copy_slice" -> s.needs_copy_slice

\* print_intrinsics that emits every helper whether or not it was demanded
PrintIntrinsicsUnconditional(s, order) ==
    IF order = <<>> THEN <<>>
    ELSE [j \in 1..Len(order) |-> <<"fn", order[j]>>]

\* lib.rs:80-205
RECURSIVE PrintIntrinsicsFrom(_, _)
PrintIntrinsicsFrom(s, order) ==
    IF order = <<>> THEN <<>>
    ELSE (IF Needs(s, Head(order)) THEN << <<"fn", Head(order)>> >> ELSE <<>>)
         \o PrintIntrinsicsFrom(s, Tail(order))

PrintIntrinsics(s) == [s EXCEPT !.src = @ \o PrintIntrinsicsFrom(s, IntrinsicOrder)]

\* has_glue that looks at the handles only
HasGlueHandlesOnly(s) == Cardinality(s.all_needed_handles) > 0

\* lib.rs:585-606
HasGlue(s) == s.needs_borrow_checker \/ Cardinality(s.all_needed_handles) > 0

FinishGlue(s) ==
    IF HasGlue(s)
    THEN LET hs == SortedHandles(s.all_needed_handles, HandleOrder)
         IN  [s EXCEPT !.src = @ \o <<T("pub trait Glue: Sized {")>>
                                 \o (IF s.needs_borrow_checker
                                     THEN << <<"fn", "borrow_checker">> >> ELSE <<>>)
                                 \o Flatten([j \in 1..Len(hs) |->
                                        << <<"type", hs[j]>>, <<"fn_table", hs[j]>> >>])
                                 \o <<T("}")>>,
                       !.all_needed_handles = {}]
    ELSE s

\* lib.rs:608-620
FinishTraits(s, has_glue, order) ==
    [s EXCEPT !.src = @ \o Flatten([j \in 1..Len(order) |->
        << <<"trait", order[j]>> >>
        \o (IF has_glue THEN << <<"extends", "Glue">> >> ELSE <<>>)
        \o Flatten([f \in 1..Len(s.imports[order[j]]) |->
                        s.imports[order[j]][f].trait_signature \o <<T(";")>>])
        \o <<T("}")>>])]

\* lib.rs:622-684
FinishLinkers(s, order) ==
    [s EXCEPT !.imports = <<>>,
              !.src = @ \o Flatten([j \in 1..Len(order) |->
        << <<"add_to_linker", order[j]>> >>
        \o (IF s.needs_get_memory THEN << <<"fn", "get_memory">> >> ELSE <<>>)
        \o (IF s.needs_get_func THEN << <<"fn", "get_func">> >> ELSE <<>>)
        \o Flatten([f \in 1..Len(s.imports[order[j]]) |->
                        << <<"linker.func", <<order[j], s.imports[order[j]][f].name>>>> >>
                        \o s.imports[order[j]][f].closure \o <<T(")?;")>>])
        \o <<T("Ok(())}")>>])]

\* the names a BTreeMap<String, _> of fields can hold, ascending
FieldOrder == <<"close", "f", "free", "g", "malloc", "memory", "witx_free", "witx_malloc">>

RECURSIVE SortedFields(_, _)
SortedFields(fields, order) ==
    IF order = <<>> THEN <<>>
    ELSE (IF Head(order) \in DOMAIN fields THEN <<Head(order)>> ELSE <<>>)
         \o SortedFields(fields, Tail(order))

\* lib.rs:686-758, one module
FinishExport(s, module) ==
    LET e == s.exports[module]
        names == SortedFields(e.fields, FieldOrder)
    IN  << <<"struct", module>>, <<"field", "instance">> >>
        \o Flatten([j \in 1..Len(names) |-> << <<"field", names[j]>>, e.fields[names[j]][1] >>])
        \o << <<"impl", module>>, T("pub fn new"), <<"let", "instance">> >>
        \o (IF s.needs_get_memory THEN << <<"let", "get_memory">> >> ELSE <<>>)
        \o (IF s.needs_get_func THEN << <<"let", "get_func">> >> ELSE <<>>)
        \o Flatten([j \in 1..Len(names) |-> << <<"let", names[j]>>, e.fields[names[j]][2] >>])
        \o <<T("Ok("), <<"init", "instance">> >>
        \o [j \in 1..Len(names) |-> <<"init", names[j]>>]
        \o <<T("})}")>>
        \o Flatten(e.funcs)
        \o <<T("}")>>

FinishExports(s, order) ==
    [s EXCEPT !.exports = <<>>,
              !.src = @ \o Flatten([j \in 1..Len(order) |-> FinishExport(s, order[j])])]

\* finish() that prints the intrinsic helpers ahead of the export structs
FinishHelpersFirst(s, iorder, eorder) ==
    LET has_glue == HasGlue(s)
        s1 == FinishGlue(s)
        s2 == FinishTraits(s1, has_glue, iorder)
        s3 == FinishLinkers(s2, iorder)
        s4 == PrintIntrinsics(s3)
        s5 == FinishExports(s4, eorder)
    IN  [s |-> [s5 EXCEPT !.src = <<>>], bindings |-> s5.src]

\* lib.rs:582-786 with opts.rustfmt unset, for the orders in which the two
\* HashMaps iterate; the result is the struct and the text of bindings.rs
Finish(s, iorder, eorder) ==
    LET has_glue == HasGlue(s)
        s1 == FinishGlue(s)
        s2 == FinishTraits(s1, has_glue, iorder)
        s3 == FinishLinkers(s2, iorder)
        s4 == FinishExports(s3, eorder)
        s5 == PrintIntrinsics(s4)
    IN  [s |-> [s5 EXCEPT !.src = <<>>], bindings |-> s5.src]

----------------------------------------------------------------------------
(* The state machine *)

\* Wasmtime::default() (lib.rs:9-40, 75-78)
Wasmtime ==
    [tmp |-> 0, src |-> <<>>,
     needs_memory |-> FALSE, needs_guest_memory |-> FALSE,
     needs_get_memory |-> FALSE, needs_get_func |-> FALSE,
     needs_char_from_i32 |-> FALSE, needs_invalid_variant |-> FALSE,
     needs_validate_flags |-> FALSE, needs_store |-> FALSE, needs_load |-> FALSE,
     needs_bad_int |-> FALSE, needs_borrow_checker |-> FALSE,
     needs_slice_as_bytes |-> FALSE, needs_copy_slice |-> FALSE,
     needs_functions |-> <<>>, all_needed_handles |-> {}, handles_for_func |-> {},
     imports |-> <<>>, exports |-> <<>>, params |-> <<>>,
     block_storage |-> <<>>, blocks |-> <<>>,
     is_dtor |-> FALSE, in_trait |-> FALSE, cleanup |-> <<>>,
     rustfmt |-> FALSE]

\* no subprocess has been spawned
NoProc == [state |-> "none"]

\* no generated code has been called yet
NoRun ==
    [status |-> "none", fn |-> 0, text |-> <<>>, ip |-> 0, live |-> {}, log |-> <<>>,
     binding |-> FALSE]

Init ==
    /\ w = Wasmtime
    /\ pc = "idle"
    /\ call = NoCall
    /\ stack = <<>>
    /\ frames = <<>>
    /\ files = <<>>
    /\ nemits = 0
    /\ trace = <<>>
    /\ ever_set = {}
    /\ proc = NoProc
    /\ run = NoRun

\* what the per-function state holds when the transduction of a function
\* starts, and when import() or export() returns
Snapshot(s) ==
    [tmp |-> s.tmp, params |-> s.params, cleanup |-> s.cleanup,
     handles_for_func |-> s.handles_for_func,
     needs_functions |-> DOMAIN s.needs_functions,
     needs_memory |-> s.needs_memory, needs_guest_memory |-> s.needs_guest_memory,
     blocks |-> s.blocks, block_storage |-> s.block_storage]

Log(i) == trace' = [trace EXCEPT ![Len(trace)].calls = Append(@, i)]

FlagsSet(s) == {h \in Intrinsics : Needs(s, h)}

\* lib.rs:386-393: a type declaration printed before the functions
TypeBuiltin ==
    /\ pc = "idle"
    /\ trace = <<>>
    /\ w.src = <<>>
    /\ w' = [w EXCEPT !.src = @ \o << <<"pub type", "t">> >>]
    /\ UNCHANGED <<pc, call, stack, frames, files, nemits, trace, ever_set, run, proc>>

\* the history of a function whose transduction starts
Started(e) ==
    [dir |-> e.call.dir, module |-> e.call.module, func |-> e.call.func.name,
     calls |-> <<>>, start |-> Snapshot(e.s), end |-> Snapshot(e.s), done |-> FALSE,
     handles_for_func |-> {}, text |-> <<>>]

Enter(e) ==
    /\ w' = e.s
    /\ call' = e.call
    /\ pc' = "call"
    /\ stack' = <<>>
    /\ frames' = <<>>
    /\ trace' = Append(trace, Started(e))
    /\ UNCHANGED <<files, nemits, ever_set, run, proc>>

Import(ms, fs) ==
    /\ pc = "idle"
    /\ Len(trace) < MaxFuncs
    /\ \E module \in ms, func \in fs : Enter(ImportEnter(w, module, func))

Export(ms, fs) ==
    /\ pc = "idle"
    /\ Len(trace) < MaxFuncs
    /\ \E module \in ms, func \in fs : Enter(ExportEnter(w, module, func))

\* the instructions that close a construct built from blocks
BlockOps == {"VariantLower", "VariantLift", "ListLower", "ListLift"}
NBlocks(i) == IF i.op \in {"VariantLower", "VariantLift"} THEN i.n ELSE 1

\* the operands the stream may still take: those pushed inside the open block
Base == IF frames = <<>> THEN 0 ELSE frames[Len(frames)].base
InBody == IF frames = <<>> THEN TRUE ELSE frames[Len(frames)].open

\* the driver hands emit() the top InArity operands and pushes its results
Apply(i, r) ==
    /\ w' = r.s
    /\ Log(i)
    /\ ever_set' = ever_set \cup (FlagsSet(r.s) \ FlagsSet(w))
    /\ IF r.ok
       THEN /\ stack' = SubSeq(stack, 1, Len(stack) - InArity(i)) \o r.results
            /\ pc' = IF i.op = "Return" THEN "ret" ELSE pc
       ELSE /\ stack' = stack
            /\ pc' = "aborted"
    /\ UNCHANGED <<call, files, run, proc>>

Operands(n) == SubSeq(stack, Len(stack) - n + 1, Len(stack))

\* emit() of an instruction that needs no blocks
EmitStep(A) ==
    /\ pc = "call"
    /\ nemits < MaxEmits
    /\ InBody
    /\ \E i \in A :
          /\ i.op \notin BlockOps
          /\ i.op = "GetArg" => i.n < call.func.nparams
          /\ i.op = "CallWasm" => call.dir = "export" /\ i.fn = call.func.name
          /\ i.op = "CallInterface" => call.dir = "import" /\ i.fn = call.func.name
          /\ InArity(i) <= Len(stack) - Base
          /\ Apply(i, Emit(w, i, Operands(InArity(i))))
    /\ nemits' = nemits + 1
    /\ UNCHANGED frames

\* push_block(): the first block of a new construct, or the next block of the open one
PushBlock(A) ==
    /\ pc = "call"
    /\ nemits < MaxEmits
    /\ \/ /\ InBody
          /\ \E i \in A :
                /\ i.op \in BlockOps
                /\ frames' = Append(frames, [inst |-> i, done |-> 0, open |-> TRUE,
                                             base |-> Len(stack)])
       \/ /\ ~InBody
          /\ frames[Len(frames)].done < NBlocks(frames[Len(frames)].inst)
          /\ frames' = [frames EXCEPT ![Len(frames)].open = TRUE,
                                      ![Len(frames)].base = Len(stack)]
    /\ w' = PushBlockOp(w)
    /\ Log(Ins("push_block", "", 0, 0, ""))
    /\ nemits' = nemits + 1
    /\ UNCHANGED <<pc, call, stack, files, ever_set, run, proc>>

\* finish_block() with the operands the block pushed
FinishBlock ==
    /\ pc = "call"
    /\ frames # <<>>
    /\ frames[Len(frames)].open
    /\ w' = FinishBlockOp(w, Operands(Len(stack) - Base))
    /\ stack' = SubSeq(stack, 1, Base)
    /\ frames' = [frames EXCEPT ![Len(frames)].open = FALSE,
                                ![Len(frames)].done = @ + 1]
    /\ Log(Ins("finish_block", "", Len(stack) - Base, 0, ""))
    /\ UNCHANGED <<pc, call, files, nemits, ever_set, run, proc>>

\* emit() of the instruction that consumes the blocks of the construct
EmitBlocks ==
    /\ pc = "call"
    /\ ~InBody
    /\ LET f == frames[Len(frames)]
           below == IF Len(frames) = 1 THEN 0 ELSE frames[Len(frames) - 1].base
       IN  /\ f.done = NBlocks(f.inst)
           /\ InArity(f.inst) <= Len(stack) - below
           /\ Apply(f.inst, Emit(w, f.inst, Operands(InArity(f.inst))))
    /\ frames' = SubSeq(frames, 1, Len(frames) - 1)
    /\ UNCHANGED nemits

\* the i64 scratch array of a return pointer: the upstream driver asks for it
\* at most once per function, before the call it passes the pointer to; dirs
\* are the directions in which the stream asks for one
RetptrLens == {2}

Allocate(dirs) ==
    /\ pc = "call"
    /\ call.dir \in dirs
    /\ nemits < MaxEmits
    /\ frames = <<>>
    /\ \A j \in 1..Len(trace[Len(trace)].calls) :
            trace[Len(trace)].calls[j].op # "allocate_i64_array"
    /\ \E amt \in RetptrLens :
          LET r == AllocateI64Array(w, amt)
          IN  /\ w' = r.s
              /\ stack' = stack \o r.results
              /\ pc' = IF r.ok THEN pc ELSE "aborted"
              /\ Log(Ins("allocate_i64_array", "", amt, 1, ""))
    /\ nemits' = nemits + 1
    /\ UNCHANGED <<call, frames, files, ever_set, run, proc>>

\* the stream of every function ends with Return of what is on the stack
MaxReturn == 2

Return ==
    /\ pc = "call"
    /\ frames = <<>>
    /\ Len(stack) <= MaxReturn
    /\ LET i == Ins("Return", "", Len(stack), 0, "")
       IN  Apply(i, Emit(w, i, stack))
    /\ UNCHANGED <<frames, nemits>>

\* the text import() or export() recorded for the function it was called with
Recorded(s, c) ==
    IF c.dir = "import"
    THEN s.imports[c.module][Len(s.imports[c.module])].closure
    ELSE s.exports[c.module].funcs[Len(s.exports[c.module].funcs)]

Leave(r) ==
    /\ w' = r.s
    /\ pc' = IF r.ok THEN "idle" ELSE "aborted"
    /\ call' = NoCall
    /\ trace' = [trace EXCEPT ![Len(trace)].done = r.ok,
                              ![Len(trace)].end = Snapshot(r.s),
                              ![Len(trace)].handles_for_func = w.handles_for_func,
                              ![Len(trace)].text = IF r.ok THEN Recorded(r.s, call)
                                                   ELSE <<>>]
    /\ UNCHANGED <<stack, frames, files, nemits, ever_set, run, proc>>

ImportEnd ==
    /\ pc = "ret"
    /\ call.dir = "import"
    /\ \E order \in Orders(DOMAIN w.needs_functions) : Leave(ImportLeave(w, call, order))

ExportEnd ==
    /\ pc = "ret"
    /\ call.dir = "export"
    /\ \E order \in Orders(DOMAIN w.needs_functions) : Leave(ExportLeave(w, call, order))

FinishStep ==
    /\ pc = "idle"
    /\ ~w.rustfmt
    /\ \E iorder \in Orders(DOMAIN w.imports), eorder \in Orders(DOMAIN w.exports) :
          LET r == Finish(w, iorder, eorder)
          IN  /\ w' = r.s
              /\ files' = r.bindings
    /\ pc' = "finished"
    /\ UNCHANGED <<call, stack, frames, nemits, trace, ever_set, run, proc>>

----------------------------------------------------------------------------
(* Specifications: the same generator, driven with the instructions, modules *)
(* and functions a group of properties is about                              *)

F == CHOOSE f \in Funcs : f.name = "f"
G == CHOOSE f \in Funcs : f.name = "g"
Close == CHOOSE f \in Funcs : f.name = "close"

GetArg0 == Ins("GetArg", "", 0, 0, "")

\* instructions that demand an intrinsic helper
IntrinsicInsts ==
    {GetArg0,
     Ins("I32Load", "", 0, 0, ""),
     Ins("I32Store", "", 0, 0, ""),
     Ins("CharFromI32", "", 0, 0, ""),
     Ins("U8FromI32", "", 0, 0, ""),
     Ins("BitflagsFromI32", "perms", 0, 0, ""),
     Ins("VariantLift", "", 2, 0, "bool"),
     Ins("ListCanonLower", "u8", 0, 0, "witx_malloc"),
     Ins("ListCanonLift", "u8", 0, 0, "witx_free")}

NextIntrinsics ==
    \/ TypeBuiltin
    \/ Import({"m1"}, {G})
    \/ Export({"m1"}, {G})
    \/ EmitStep(IntrinsicInsts)
    \/ PushBlock(IntrinsicInsts)
    \/ FinishBlock
    \/ EmitBlocks
    \/ Return
    \/ ImportEnd
    \/ ExportEnd
    \/ FinishStep

SpecIntrinsics == Init /\ [][NextIntrinsics]_vars

\* the helper bodies in the text of bindings.rs
Emitted == {h \in Intrinsics : <<"fn", h>> \in Range(files)}

\* C1: when finish() has returned, a helper body is in bindings.rs if and only
\* if an emit() call set its demand flag; until then a flag that was set stays
\* set, and no flag is set that no emit() call set.
C1_IntrinsicsIffDemanded ==
    /\ pc = "finished" => Emitted = ever_set
    /\ pc # "finished" => FlagsSet(w) = ever_set

\* finish() ran after functions that demanded some helpers and not others
C1_Witness ==
    /\ pc = "finished"
    /\ Len(trace) = 2
    /\ "load" \in Emitted
    /\ "store" \notin Emitted
    /\ Cardinality(Emitted) >= 2

----------------------------------------------------------------------------
(* Handles *)

HandleInsts ==
    {GetArg0,
     Ins("I32FromOwnedHandle", "file", 0, 0, ""),
     Ins("I32FromOwnedHandle", "sock", 0, 0, ""),
     Ins("HandleBorrowedFromI32", "file", 0, 0, ""),
     Ins("HandleBorrowedFromI32", "sock", 0, 0, "")}

NextHandles ==
    \/ Import({"m1"}, {F, Close})
    \/ Export({"m1"}, {F, Close})
    \/ EmitStep(HandleInsts)
    \/ Return
    \/ ImportEnd
    \/ ExportEnd
    \/ FinishStep

SpecHandles == Init /\ [][NextHandles]_vars

Count(s, x) == Cardinality({j \in 1..Len(s) : s[j] = x})

HandleOps == {"I32FromOwnedHandle", "HandleBorrowedFromI32"}

\* the handle types the handle instructions of the j-th function name
HandlesNamed(j) ==
    {trace[j].calls[k].ty : k \in {k \in 1..Len(trace[j].calls) :
                                        trace[j].calls[k].op \in HandleOps}}

AllHandlesNamed == UNION {HandlesNamed(j) : j \in 1..Len(trace)}
AllHandlesForFunc == UNION {trace[j].handles_for_func : j \in 1..Len(trace)}

\* C2 as stated: between functions, hence when finish() is called, the
\* globally-needed handles are the union of the per-function handles_for_func sets.
C2_GlobalIsUnionOfHandlesForFunc ==
    pc = "idle" => w.all_needed_handles = AllHandlesForFunc

\* C2, amended: between functions, hence when finish() is called, the
\* globally-needed handles are the handle types named by any handle instruction
\* of any function (handles_for_func holds only those of non-destructor
\* HandleBorrowedFromI32, a subset), and the Glue trait of bindings.rs declares
\* one associated type and one table accessor for each of them and no other.
C2_HandleClosure ==
    /\ pc = "idle" => /\ w.all_needed_handles = AllHandlesNamed
                      /\ AllHandlesForFunc \subseteq w.all_needed_handles
    /\ pc = "finished" =>
          \A h \in Handles :
             /\ Count(files, <<"type", h>>) = IF h \in AllHandlesNamed THEN 1 ELSE 0
             /\ Count(files, <<"fn_table", h>>) = IF h \in AllHandlesNamed THEN 1 ELSE 0

\* finish() ran after a function that borrowed a handle through the access
\* token and a function that named a handle without it
C2_Witness ==
    /\ pc = "finished"
    /\ <<"type", "file">> \in Range(files)
    /\ <<"type", "sock">> \in Range(files)
    /\ \E j \in 1..Len(trace) : trace[j].handles_for_func # {}
    /\ \E j \in 1..Len(trace) : HandlesNamed(j) # {} /\ trace[j].handles_for_func = {}

\* C10: an exported function whose stream holds a handle instruction is never
\* recorded: export() aborts.
C10_ExportWithHandleAborts ==
    \A j \in 1..Len(trace) :
        trace[j].dir = "export" /\ HandlesNamed(j) # {} => ~trace[j].done

----------------------------------------------------------------------------
(* Blocks *)

BlockInsts ==
    {GetArg0,
     Ins("IterElem", "", 0, 0, ""),
     Ins("VariantLower", "", 2, 1, "bool"),
     Ins("VariantLift", "", 2, 0, "bool"),
     Ins("ListLower", "i32", 0, 0, "witx_malloc"),
     Ins("ListLift", "i32", 0, 0, "")}

NextBlocks ==
    \/ Import({"m1"}, {G})
    \/ Export({"m1"}, {G})
    \/ EmitStep(BlockInsts)
    \/ PushBlock(BlockInsts)
    \/ FinishBlock
    \/ EmitBlocks
    \/ Return
    \/ ImportEnd
    \/ ExportEnd
    \/ FinishStep

SpecBlocks == Init /\ [][NextBlocks]_vars

\* the calls of the j-th function with one of the given names
CallsOf(j, ops) == {k \in 1..Len(trace[j].calls) : trace[j].calls[k].op \in ops}

\* the blocks the open constructs have finished so far
RECURSIVE BlocksDone(_)
BlocksDone(fs) == IF fs = <<>> THEN 0 ELSE Head(fs).done + BlocksDone(Tail(fs))

\* C3: when import() or export() returns from a function with a well-formed
\* stream, block_storage and blocks are both empty; while the stream runs,
\* block_storage holds one saved text per open block and blocks one result per
\* finished block of the constructs that are still open.
C3_BlocksEmptyAtBoundary ==
    /\ pc \in {"idle", "ret", "finished"} => w.block_storage = <<>> /\ w.blocks = <<>>
    /\ pc = "call" =>
          /\ Len(w.block_storage) = Cardinality({j \in 1..Len(frames) : frames[j].open})
          /\ Len(w.blocks) = BlocksDone(frames)

\* import() or export() returned from a function that nested a construct of
\* blocks inside the block of another
C3_Witness ==
    /\ pc = "idle"
    /\ \E j \in 1..Len(trace) :
          /\ trace[j].done
          /\ Cardinality(CallsOf(j, {"push_block"})) >= 2
          /\ Cardinality(CallsOf(j, {"finish_block"})) >= 2
          /\ Cardinality(CallsOf(j, BlockOps)) >= 2

----------------------------------------------------------------------------
(* The cleanup fragment *)

CleanupInsts ==
    {GetArg0,
     Ins("I32Load", "", 0, 0, ""),
     Ins("CallWasm", "", 2, 0, "g"),
     Ins("CallInterface", "", 2, 0, "g")}

NextCleanup ==
    \/ Import({"m1"}, {G})
    \/ Export({"m1"}, {G})
    \/ EmitStep(CleanupInsts)
    \/ Allocate({"import", "export"})
    \/ Return
    \/ ImportEnd
    \/ ExportEnd
    \/ FinishStep

SpecCleanup == Init /\ [][NextCleanup]_vars

\* the positions of a token in a text
At(text, x) == {k \in 1..Len(text) : text[k] = x}

\* the calls of the guest's deallocator and allocator on a scratch array: the
\* position of the callee in the text (export() binds the same two fields by
\* reference in the prologue, with no pointer next to them)
FreeCalls(text) ==
    {k \in At(text, <<"self", "witx_free">>) : k < Len(text) /\ text[k + 1][1] = "ptr"}
MallocCalls(text) ==
    {k \in At(text, <<"self", "witx_malloc">>) : k > 2 /\ text[k - 2][1] = "ptr"}

\* the pointers the text frees, and the pointers it allocates
Freed(text) == {text[k + 1] : k \in FreeCalls(text)}
Allocated(text) == {text[k - 2] : k \in MallocCalls(text)}

\* C4: cleanup is None whenever import() or export() has returned (and once
\* Return was emitted); the text recorded for a function frees a scratch array
\* exactly when that function called allocate_i64_array, and frees the pointer
\* that function allocated; allocate_i64_array never aborts on a fragment a
\* function has left behind.
C4_CleanupEmptyAtBoundary ==
    /\ pc \in {"idle", "ret", "finished"} => w.cleanup = <<>>
    /\ \A j \in 1..Len(trace) :
          trace[j].done =>
             /\ Cardinality(FreeCalls(trace[j].text))
                   = Cardinality(CallsOf(j, {"allocate_i64_array"}))
             /\ Freed(trace[j].text) = Allocated(trace[j].text)
    /\ pc = "aborted" =>
          LET calls == trace[Len(trace)].calls
          IN  calls # <<>> => calls[Len(calls)].op # "allocate_i64_array"

\* two functions in a row allocated a scratch array, one per direction, and
\* both were recorded
C4_Witness ==
    /\ pc = "idle"
    /\ Len(trace) = 2
    /\ trace[1].dir # trace[2].dir
    /\ \A j \in 1..2 : /\ trace[j].done
                       /\ CallsOf(j, {"allocate_i64_array"}) # {}
                       /\ Cardinality(Freed(trace[j].text)) = 1
    /\ Freed(trace[1].text) # Freed(trace[2].text)

----------------------------------------------------------------------------
(* Per-function scratch state *)

ScratchInsts ==
    {GetArg0,
     Ins("HandleBorrowedFromI32", "file", 0, 0, ""),
     Ins("ListCanonLower", "u8", 0, 0, "witx_malloc")}

NextScratch ==
    \/ Import({"m1"}, {F, G})
    \/ Export({"m1"}, {F, G})
    \/ EmitStep(ScratchInsts)
    \/ Allocate({"export"})
    \/ Return
    \/ ImportEnd
    \/ ExportEnd
    \/ FinishStep

SpecScratch == Init /\ [][NextScratch]_vars

\* the parameter names of the j-th function
ParamsOf(j) ==
    LET func == CHOOSE f \in Funcs : f.name = trace[j].func
    IN  [k \in 1..func.nparams |-> << <<"arg", k - 1>> >>]

\* what the j-th function starts with, the temporary counter apart
StartsClean(j) ==
    /\ trace[j].start.params = ParamsOf(j)
    /\ trace[j].start.cleanup = <<>>
    /\ trace[j].start.handles_for_func = {}
    /\ trace[j].start.needs_functions = {}

\* C5 as stated: every function starts with the temporary counter at its
\* initial value, with its own parameters only, and with cleanup,
\* handles_for_func and needs_functions empty.
C5_ScratchResetWithTmp ==
    \A j \in 1..Len(trace) : trace[j].start.tmp = 0 /\ StartsClean(j)

\* C5, amended: every function starts with its own parameters only and with
\* cleanup, handles_for_func and needs_functions empty, and import() and
\* export() leave them so; the temporary counter is never reset: a function
\* starts with the value the function before it ended with (the first with 0),
\* and the counter never decreases.
C5_ScratchResetTmpCarried ==
    /\ \A j \in 1..Len(trace) :
          /\ StartsClean(j)
          /\ trace[j].start.tmp = IF j = 1 THEN 0 ELSE trace[j - 1].end.tmp
          /\ trace[j].start.tmp <= trace[j].end.tmp
          /\ trace[j].done =>
                /\ trace[j].end.cleanup = <<>>
                /\ trace[j].end.handles_for_func = {}
                /\ trace[j].end.needs_functions = {}
    /\ trace # <<>> => trace[Len(trace)].start.tmp <= w.tmp

\* a function with one parameter starts after a function with two that took
\* temporaries, needed guest functions and set a cleanup
C5_Witness ==
    /\ pc = "call"
    /\ Len(trace) = 2
    /\ trace[1].func = "g" /\ trace[2].func = "f"
    /\ trace[2].start.tmp > 1
    /\ CallsOf(1, {"allocate_i64_array"}) # {}
    /\ CallsOf(1, {"ListCanonLower"}) # {}

----------------------------------------------------------------------------
(* Arity: emit() applied once to each instruction kind *)

\* the largest number of operands, results, cases and fields tried
MaxArity == 3

\* the operands on the driver's stack, and two finished blocks
ArityOperands == [j \in 1..MaxArity |-> << <<"operand", j>> >>]
ArityBlocks == << <<T("b1")>>, <<T("b2")>> >>

Ops0 == TopAsOps \cup PassOps \cup TryFromOps \cup LoadOps \cup StoreOps
        \cup UnimplementedOps \cup WitxPointerOps \cup WitxOtherOps
        \cup {"I32Const", "CharFromI32", "VariantPayload", "IterElem", "IterBasePointer"}

ArityInsts ==
    {Ins(op, "", 0, 0, "") : op \in Ops0}
    \cup {Ins(op, "", n, 0, "") :
            op \in {"GetArg", "ConstZero", "Bitcasts", "RecordLower", "RecordLift", "Return"},
            n \in 0..MaxArity}
    \cup {Ins(op, ty, 0, 0, "") :
            op \in {"I32FromOwnedHandle", "HandleBorrowedFromI32", "I32FromBitflags",
                    "I64FromBitflags", "BitflagsFromI32", "BitflagsFromI64"},
            ty \in {"file"}}
    \cup {Ins("VariantLower", "", 2, k, "bool") : k \in 0..MaxArity}
    \cup {Ins("VariantLift", ty, 2, 0, fn) :
            ty \in {"", "errno"}, fn \in {"bool", "expected", "option", "enum"}}
    \cup {Ins(op, ty, 0, 0, fn) :
            op \in {"ListCanonLower", "ListCanonLift", "ListLower", "ListLift"},
            ty \in {"u8", "char"}, fn \in {"", "witx_malloc"}}
    \cup {Ins(op, "", n, k, "g") :
            op \in {"CallWasm", "CallInterface"}, n \in 0..MaxArity, k \in 0..MaxArity}

InitArity ==
    /\ \E func \in {G, Close}, dir \in {"import", "export"} :
          LET e == IF dir = "import" THEN ImportEnter(Wasmtime, "m1", func)
                   ELSE ExportEnter(Wasmtime, "m1", func)
          IN  /\ w = [e.s EXCEPT !.blocks = ArityBlocks]
              /\ call = e.call
              /\ trace = <<Started(e)>>
    /\ pc = "call"
    /\ stack = ArityOperands
    /\ frames = <<>>
    /\ files = <<>>
    /\ nemits = 0
    /\ ever_set = {}
    /\ proc = NoProc
    /\ run = NoRun

\* one emit() with the operands the instruction declares
EmitAny(A) ==
    /\ pc = "call"
    /\ trace[1].calls = <<>>
    /\ \E i \in A :
          /\ i.op = "GetArg" => i.n < call.func.nparams
          /\ InArity(i) <= Len(stack)
          /\ Apply(i, Emit(w, i, Operands(InArity(i))))
    /\ nemits' = nemits + 1
    /\ UNCHANGED frames

NextArity == EmitAny(ArityInsts)

SpecArity == InitArity /\ [][NextArity]_vars

\* C6: an emit() that returns leaves the driver's stack without the
\* instruction's in_arity operands and with out_arity result expressions in
\* their place: it reads no operand beyond those it was given and pushes
\* exactly the declared number of results.
C6_ArityPreserved ==
    (Len(trace) = 1 /\ Len(trace[1].calls) = 1 /\ pc # "aborted") =>
        LET i == trace[1].calls[1]
            kept == MaxArity - InArity(i)
        IN  /\ Len(stack) = kept + OutArity(i)
            /\ SubSeq(stack, 1, kept) = SubSeq(ArityOperands, 1, kept)
            /\ \A j \in kept + 1..Len(stack) : stack[j] # <<>>

\* ListCanonLower took one operand and pushed the pointer and the length
C6_Witness ==
    /\ pc = "call"
    /\ Len(trace) = 1
    /\ Len(trace[1].calls) = 1
    /\ trace[1].calls[1].op = "ListCanonLower"
    /\ Len(stack) = MaxArity + 1

----------------------------------------------------------------------------
(* The prologue of an import *)

PrologueInsts ==
    {GetArg0,
     Ins("I32Load", "", 0, 0, ""),
     Ins("HandleBorrowedFromI32", "file", 0, 0, ""),
     Ins("ListCanonLower", "u8", 0, 0, "witx_malloc"),
     Ins("ListCanonLift", "u8", 0, 0, "witx_free"),
     Ins("ListCanonLift", "u8", 0, 0, "")}

NextPrologue ==
    \/ Import({"m1"}, {G, Close})
    \/ Export({"m1"}, {G})
    \/ EmitStep(PrologueInsts)
    \/ Return
    \/ ImportEnd
    \/ ExportEnd
    \/ FinishStep

SpecPrologue == Init /\ [][NextPrologue]_vars

GuestFuncs == {"witx_malloc", "witx_free"}

\* what the stream of the j-th function demands, read off its instructions
TouchesGuestMemory(j) ==
    \E k \in CallsOf(j, {"ListCanonLift"}) : trace[j].calls[k].fn = ""
TouchesMemory(j) ==
    \/ CallsOf(j, LoadOps \cup StoreOps \cup {"ListCanonLower"}) # {}
    \/ \E k \in CallsOf(j, {"ListCanonLift"}) : trace[j].calls[k].fn # ""
Borrowed(j) ==
    IF IsDtorFunc(trace[j].func) THEN {}
    ELSE {trace[j].calls[k].ty : k \in CallsOf(j, {"HandleBorrowedFromI32"})}
NeededBy(j) ==
    {trace[j].calls[k].fn :
        k \in CallsOf(j, {"ListCanonLower", "ListCanonLift", "ListLower", "ListLift"})}
    \cup (IF CallsOf(j, {"allocate_i64_array"}) # {} THEN GuestFuncs ELSE {})

\* C7: the closure recorded for an import holds the memory lookup exactly when
\* its own stream touched memory or a guest-borrowed list, the guest-memory
\* initialization (after the lookup it reads) exactly when its own stream
\* touched a guest-borrowed list, one table access per handle type its own
\* stream borrowed, and one function extraction per guest function its own
\* stream needs; what an earlier function demanded is not in it.
C7_PrologueOfThisFunction ==
    \A j \in 1..Len(trace) :
        (trace[j].done /\ trace[j].dir = "import") =>
            LET text == trace[j].text IN
            /\ Count(text, <<"let", "memory">>)
                  = IF TouchesMemory(j) \/ TouchesGuestMemory(j) THEN 1 ELSE 0
            /\ Count(text, <<"let", "guest_memory">>)
                  = IF TouchesGuestMemory(j) THEN 1 ELSE 0
            /\ \A a \in At(text, <<"let", "guest_memory">>) :
                  \E b \in At(text, <<"let", "memory">>) : b < a
            /\ trace[j].handles_for_func = Borrowed(j)
            /\ \A h \in Handles :
                  Count(text, <<"let_access", h>>) = IF h \in Borrowed(j) THEN 1 ELSE 0
            /\ \A name \in GuestFuncs \cup {""} :
                  Count(text, <<"let_func", name>>)
                      = IF name \in NeededBy(j) \ {""} THEN 1 ELSE 0

\* an import that lifted a guest-borrowed list is followed by an import whose
\* stream touches neither memory nor handles, and whose closure has no prologue
C7_Witness ==
    /\ pc = "idle"
    /\ Len(trace) = 2
    /\ trace[1].dir = "import" /\ trace[2].dir = "import"
    /\ TouchesGuestMemory(1)
    /\ <<"let", "guest_memory">> \in Range(trace[1].text)
    /\ trace[2].calls # <<>>
    /\ <<"let", "memory">> \notin Range(trace[2].text)

----------------------------------------------------------------------------
(* The fields of an export struct *)

ExportInsts ==
    {GetArg0,
     Ins("I32Load", "", 0, 0, ""),
     Ins("CallWasm", "", 1, 1, "f")}

NextExports ==
    \/ Export({"m1"}, {F, G})
    \/ Export({"m2"}, {G})
    \/ EmitStep(ExportInsts)
    \/ Allocate({"export"})
    \/ Return
    \/ ExportEnd
    \/ FinishStep

SpecExports == Init /\ [][NextExports]_vars

\* the functions export() has recorded for a module
ExportsOf(m) ==
    {j \in 1..Len(trace) :
        trace[j].done /\ trace[j].dir = "export" /\ trace[j].module = m}

\* the fields the streams of the module's exported functions call for
ExpectedFields(m) ==
    LET js == ExportsOf(m)
    IN  (IF \E j \in js : TouchesMemory(j) THEN {"memory"} ELSE {})
        \cup UNION {NeededBy(j) \ {""} : j \in js}
        \cup {trace[j].func : j \in js}

\* the (type, extractor) pair a field of that name is to have
ExpectedPair(name) ==
    CASE name = "memory" -> << <<"ty", "Memory">>, <<"get_memory", "memory">> >>
      [] name = "witx_malloc" -> << <<"ty", "Malloc">>, <<"get_func", name>> >>
      [] name = "witx_free" -> << <<"ty", "Free">>, <<"get_func", name>> >>
      [] OTHER -> LET func == CHOOSE f \in Funcs : f.name = name
                  IN  << <<"boxfn", <<func.nparams, func.nresults>>>>,
                         <<"get_func", name>> >>

\* the fields self.<X> the text refers to
SelfRefs(text) == {text[k][2] : k \in {k \in 1..Len(text) : text[k][1] = "self"}}

\* C8: as long as export() calls return, a module has an entry exactly when a
\* function was exported from it, with one method per export() call, and its
\* fields are memory if and only if one of its exported functions touched
\* memory, the guest functions its exported functions need, and its exported
\* functions; each field has the pair of its kind, and every self.<X> of a
\* method is a field. finish() declares each field once per module that has it.
C8_ExportFields ==
    /\ pc \in {"idle", "call", "ret"} =>
          /\ DOMAIN w.exports = {m \in Modules : ExportsOf(m) # {}}
          /\ \A m \in DOMAIN w.exports :
                LET e == w.exports[m]
                    names == DOMAIN e.fields
                IN  /\ names = ExpectedFields(m)
                    /\ \A name \in names : e.fields[name] = ExpectedPair(name)
                    /\ Len(e.funcs) = Cardinality(ExportsOf(m))
                    /\ \A k \in 1..Len(e.funcs) : SelfRefs(e.funcs[k]) \subseteq names
    /\ pc = "finished" =>
          \A name \in Range(FieldOrder) :
              Count(files, <<"field", name>>)
                  = Cardinality({m \in Modules : name \in ExpectedFields(m)})

\* two modules: an exported function of the first read memory, one of the
\* second allocated a scratch array through the guest's allocator
C8_Witness ==
    /\ pc = "idle"
    /\ DOMAIN w.exports = Modules
    /\ DOMAIN w.exports["m1"].fields = {"memory", "f"}
    /\ DOMAIN w.exports["m2"].fields = {"witx_malloc", "witx_free", "g"}

----------------------------------------------------------------------------
(* Guest-borrowed lists *)

GuestListInsts ==
    {GetArg0,
     Ins("ListCanonLift", "u8", 0, 0, ""),
     Ins("ListCanonLift", "u8", 0, 0, "witx_free")}

NextGuestLists ==
    \/ Import({"m1"}, {G})
    \/ Export({"m1"}, {G})
    \/ EmitStep(GuestListInsts)
    \/ Return
    \/ ImportEnd
    \/ ExportEnd
    \/ FinishStep

SpecGuestLists == Init /\ [][NextGuestLists]_vars

\* C9: export() never returns from a function whose stream lifted a
\* guest-borrowed list, so no such function is recorded; no method recorded
\* for any module mentions guest_memory, and neither does the text recorded
\* for any export.
C9_NoGuestListInExport ==
    /\ \A j \in 1..Len(trace) :
          trace[j].dir = "export" =>
             /\ TouchesGuestMemory(j) => ~trace[j].done
             /\ <<"ref", "guest_memory">> \notin Range(trace[j].text)
    /\ \A m \in DOMAIN w.exports :
          \A k \in 1..Len(w.exports[m].funcs) :
              <<"ref", "guest_memory">> \notin Range(w.exports[m].funcs[k])
    /\ pc \in {"idle", "finished"} =>
          \A j \in 1..Len(trace) : trace[j].dir = "export" => ~TouchesGuestMemory(j)

\* export() aborted, after the stream of the function had ended, on a function
\* that lifted a guest-borrowed list; the module has its entry and no method
C9_Witness ==
    /\ pc = "aborted"
    /\ trace[Len(trace)].dir = "export"
    /\ TouchesGuestMemory(Len(trace))
    /\ CallsOf(Len(trace), {"Return"}) # {}
    /\ "m1" \in DOMAIN w.exports
    /\ w.exports["m1"].funcs = <<>>

----------------------------------------------------------------------------
(* The Glue trait *)

GlueInsts ==
    {GetArg0,
     Ins("ListCanonLift", "u8", 0, 0, ""),
     Ins("HandleBorrowedFromI32", "file", 0, 0, ""),
     Ins("I32FromOwnedHandle", "sock", 0, 0, "")}

NextGlue ==
    \/ Import(Modules, {G, Close})
    \/ Export({"m1"}, {G})
    \/ EmitStep(GlueInsts)
    \/ Return
    \/ ImportEnd
    \/ ExportEnd
    \/ FinishStep

SpecGlue == Init /\ [][NextGlue]_vars

\* the modules import() was called for
ImportModules == {trace[j].module : j \in {j \in 1..Len(trace) : trace[j].dir = "import"}}

\* some import lifted a guest-borrowed list
GuestListSeen ==
    \E j \in 1..Len(trace) : trace[j].dir = "import" /\ TouchesGuestMemory(j)

GlueHeader == T("pub trait Glue: Sized {")

\* C11: bindings.rs declares the Glue trait exactly when an import lifted a
\* guest-borrowed list or a handle type was named; the trait holds the
\* borrow-checker accessor exactly in the first case, and one associated type
\* and one table accessor per handle named, all ahead of the module traits;
\* every module trait extends Glue when it is declared and none does otherwise.
C11_GlueIffNeeded ==
    pc = "finished" =>
        LET glue == GuestListSeen \/ AllHandlesNamed # {}
            traits == {k \in 1..Len(files) : files[k][1] = "trait"}
        IN  /\ Count(files, GlueHeader) = IF glue THEN 1 ELSE 0
            /\ Count(files, <<"fn", "borrow_checker">>) = IF GuestListSeen THEN 1 ELSE 0
            /\ \A h \in Handles :
                  /\ Count(files, <<"type", h>>) = IF h \in AllHandlesNamed THEN 1 ELSE 0
                  /\ Count(files, <<"fn_table", h>>) = IF h \in AllHandlesNamed THEN 1 ELSE 0
            /\ \A k \in 1..Len(files) :
                  files[k][1] \in {"type", "fn_table"} \/ files[k] = <<"fn", "borrow_checker">>
                     => /\ \E g \in At(files, GlueHeader) : g < k
                        /\ \A t \in traits : k < t
            /\ {files[k][2] : k \in traits} = ImportModules
            /\ Cardinality(traits) = Cardinality(ImportModules)
            /\ \A k \in traits : (files[k + 1] = <<"extends", "Glue">>) <=> glue
            /\ Count(files, <<"extends", "Glue">>) = IF glue THEN Cardinality(traits) ELSE 0

\* Glue is declared for the borrow checker alone, and the traits of two
\* modules extend it
C11_Witness ==
    /\ pc = "finished"
    /\ GuestListSeen
    /\ AllHandlesNamed = {}
    /\ <<"fn", "borrow_checker">> \in Range(files)
    /\ Count(files, <<"extends", "Glue">>) = 2

----------------------------------------------------------------------------
(* The helpers of add_<module>_to_linker *)

LinkerInsts ==
    {GetArg0,
     Ins("I32Load", "", 0, 0, ""),
     Ins("ListCanonLower", "u8", 0, 0, "witx_malloc")}

NextLinkers ==
    \/ Import(Modules, {G})
    \/ Export({"m1"}, {G})
    \/ EmitStep(LinkerInsts)
    \/ Return
    \/ ImportEnd
    \/ ExportEnd
    \/ FinishStep

SpecLinkers == Init /\ [][NextLinkers]_vars

\* the least position after a where the text holds x (0 if none)
NextAt(text, a, x) ==
    LET ks == {k \in At(text, x) : k > a}
    IN  IF ks = {} THEN 0 ELSE CHOOSE k \in ks : \A l \in ks : k <= l

\* the text of add_<module>_to_linker in bindings.rs
LinkerText(m) ==
    LET a == CHOOSE k \in At(files, <<"add_to_linker", m>>) : TRUE
    IN  SubSeq(files, a, NextAt(files, a, T("Ok(())}")))

\* C12: in add_<module>_to_linker, get_memory is defined only if a closure the
\* module registers calls it, and get_func likewise.
C12_HelpersOnlyWhereUsed ==
    pc = "finished" =>
        \A m \in ImportModules :
            /\ <<"fn", "get_memory">> \in Range(LinkerText(m))
                  => <<"call", "get_memory">> \in Range(LinkerText(m))
            /\ <<"fn", "get_func">> \in Range(LinkerText(m))
                  => <<"call", "get_func">> \in Range(LinkerText(m))

----------------------------------------------------------------------------
(* The import records in bindings.rs *)

ImportInsts ==
    {GetArg0,
     Ins("I32Load", "", 0, 0, "")}

NextImports ==
    \/ Import(Modules, {F, G})
    \/ EmitStep(ImportInsts)
    \/ Return
    \/ ImportEnd
    \/ FinishStep

SpecImports == Init /\ [][NextImports]_vars

\* the import() calls made for a module, in the order they were made
ImportsOf(m) ==
    LET OfModule(r) == r.dir = "import" /\ r.module = m
    IN  SelectSeq(trace, OfModule)

\* the text of the module's trait in bindings.rs
TraitText(m) ==
    LET a == CHOOSE k \in At(files, <<"trait", m>>) : TRUE
    IN  SubSeq(files, a, NextAt(files, a, T("}")))

\* the tokens of one kind in a text, in order
OfKind(text, kind) ==
    LET IsKind(x) == x[1] = kind
    IN  SelectSeq(text, IsKind)

\* C13: for every module, bindings.rs has one trait and one
\* add_<module>_to_linker; the trait lists one method signature per import()
\* call made for the module, in call order, and the function registers one
\* closure per call, in call order, under the module and the name of the
\* call's function, the closure being the text generated in that call.
C13_ImportsInOrder ==
    pc = "finished" =>
        /\ \A m \in Modules :
              /\ Count(files, <<"trait", m>>) = IF m \in ImportModules THEN 1 ELSE 0
              /\ Count(files, <<"add_to_linker", m>>) = IF m \in ImportModules THEN 1 ELSE 0
        /\ Len(OfKind(files, "sig")) = Cardinality({j \in 1..Len(trace) : trace[j].dir = "import"})
        /\ Len(OfKind(files, "linker.func")) = Len(OfKind(files, "sig"))
        /\ \A m \in ImportModules :
              LET calls == ImportsOf(m)
                  sigs == OfKind(TraitText(m), "sig")
                  lt == LinkerText(m)
                  regs == Flatten([k \in 1..Len(calls) |->
                              << <<"linker.func", <<m, calls[k].func>>>> >>
                              \o calls[k].text \o <<T(")?;")>>])
              IN  /\ sigs = [k \in 1..Len(calls) |-> <<"sig", calls[k].func>>]
                  /\ Len(OfKind(lt, "linker.func")) = Len(calls)
                  /\ SubSeq(lt, Len(lt) - Len(regs), Len(lt) - 1) = regs

\* two imports of one module, of different functions with different closures
C13_Witness ==
    /\ pc = "finished"
    /\ Len(ImportsOf("m1")) = 2
    /\ ImportsOf("m1")[1].func = "g"
    /\ ImportsOf("m1")[2].func = "f"
    /\ ImportsOf("m1")[1].text # ImportsOf("m1")[2].text
    /\ ImportsOf("m1")[1].calls # <<>>

----------------------------------------------------------------------------
(* The sections of bindings.rs *)

SectionInsts ==
    {GetArg0,
     Ins("I32Load", "", 0, 0, ""),
     Ins("CharFromI32", "", 0, 0, ""),
     Ins("U8FromI32", "", 0, 0, ""),
     Ins("HandleBorrowedFromI32", "file", 0, 0, "")}

NextSections ==
    \/ Import(Modules, {G})
    \/ Export({"m1"}, {G})
    \/ EmitStep(SectionInsts)
    \/ Return
    \/ ImportEnd
    \/ ExportEnd
    \/ FinishStep

SpecSections == Init /\ [][NextSections]_vars

\* the positions in bindings.rs where a section of each kind starts or ends
GlueAt == At(files, GlueHeader)
TraitsAt == {k \in 1..Len(files) : files[k][1] = "trait"}
LinkersAt == {k \in 1..Len(files) : files[k][1] = "add_to_linker"}
LinkersEndAt == At(files, T("Ok(())}"))
StructsAt == {k \in 1..Len(files) : files[k][1] = "struct"}
HelpersAt == {k \in 1..Len(files) : files[k][1] = "fn" /\ files[k][2] \in Intrinsics}

\* every position of the first set precedes every position of the second
Before(A, B) == \A a \in A, b \in B : a < b

\* the place of a helper in the order helper bodies are to appear in
HelperRank(h) ==
    CASE h = "store" -> 1
      [] h = "load" -> 2
      [] h = "char_from_i32" -> 3
      [] h = "invalid_variant" -> 4
      [] h = "bad_int" -> 5
      [] h = "validate_flags" -> 6
      [] h = "slice_as_bytes" -> 7
      [] h = "copy_slice" -> 8

\* C14: in bindings.rs the Glue trait precedes every module trait, every
\* module trait precedes every add_<module>_to_linker function, every such
\* function ends before every export struct, and the helper bodies are the
\* last thing in the file, in the order store, load, char_from_i32,
\* invalid_variant, bad_int, validate_flags, slice_as_bytes, copy_slice.
C14_SectionsInOrder ==
    pc = "finished" =>
        /\ Before(GlueAt, TraitsAt \cup LinkersAt \cup StructsAt \cup HelpersAt)
        /\ Before(TraitsAt, LinkersAt \cup StructsAt \cup HelpersAt)
        /\ Before(LinkersAt \cup LinkersEndAt, StructsAt \cup HelpersAt)
        /\ Before(StructsAt, HelpersAt)
        /\ HelpersAt = Len(files) - Cardinality(HelpersAt) + 1..Len(files)
        /\ \A a \in HelpersAt, b \in HelpersAt :
              a < b => HelperRank(files[a][2]) < HelperRank(files[b][2])

\* a trait, its linker function, an export struct and two helpers, the flag of
\* the later helper having been set first
C14_Witness ==
    /\ pc = "finished"
    /\ TraitsAt # {} /\ LinkersAt # {} /\ StructsAt # {}
    /\ Cardinality(HelpersAt) = 2
    /\ CallsOf(1, {"U8FromI32"}) # {}
    /\ CallsOf(2, {"I32Load"}) # {}

----------------------------------------------------------------------------
(* The generated code at run time *)

\* a place where the generated code returns early with the trap of a callee:
\* the `?` after a call of the guest (lib.rs:828-833, 1215) or of a helper
Fallible(text, k) ==
    \/ text[k][1] = "call"
    \/ text[k][1] = "txt" /\ text[k][2] \in {"?;", ")?;"}

\* the token n places before the one the call is at
Prev(r, n) == IF r.ip > n THEN r.text[r.ip - n] ELSE T("")

\* one token of the text of a generated function, executed; trap says that
\* the callee at a fallible place returned a trap
Exec(r, trap) ==
    LET t == r.text[r.ip]
        ev(e) == [r EXCEPT !.log = Append(@, e), !.ip = @ + 1]
    IN  CASE trap -> [r EXCEPT !.status = "trapped", !.log = Append(@, <<"trap">>)]
          [] ~trap /\ t = T("?;") /\ Prev(r, 4) = <<"self", "witx_free">> ->
                \* (&self.witx_free)(ptr, size, align)?;
                LET b == <<Prev(r, 3), Prev(r, 2)[2], Prev(r, 1)[2]>>
                IN  [ev(<<"free">> \o b) EXCEPT !.live = @ \ {b}]
          [] ~trap /\ t = T("?;") /\ Prev(r, 3) = <<"self", "witx_malloc">> ->
                \* let ptr = (&self.witx_malloc)(size, align)?;
                LET b == <<Prev(r, 5), Prev(r, 2)[2], Prev(r, 1)[2]>>
                IN  [ev(<<"malloc">> \o b) EXCEPT !.live = @ \cup {b}]
          [] ~trap /\ t[1] = "ptr"
                   /\ Prev(r, 1) \notin {T("let"), <<"self", "witx_free">>} ->
                ev(<<"use", t>>)
          [] ~trap /\ t = T("let ret =") -> [r EXCEPT !.binding = TRUE, !.ip = @ + 1]
          [] ~trap /\ t = T(";") /\ r.binding ->
                [ev(<<"bind">>) EXCEPT !.binding = FALSE]
          [] ~trap /\ t = T("ret") ->
                [r EXCEPT !.status = "returned", !.log = Append(@, <<"yield">>)]
          [] OTHER ->
                \* the tail expression of the body is what the function yields
                IF r.ip = Len(r.text)
                THEN [r EXCEPT !.status = "returned", !.log = Append(@, <<"yield">>)]
                ELSE [r EXCEPT !.ip = @ + 1]

\* the host calls a generated function: the closure import() recorded (called
\* by the guest through the linker) or the method export() recorded
RunCall ==
    /\ pc = "finished"
    /\ run.status # "running"
    /\ \E j \in 1..Len(trace) :
          /\ trace[j].done
          /\ run' = [NoRun EXCEPT !.status = "running", !.fn = j, !.text = trace[j].text,
                                  !.ip = 1]
    /\ UNCHANGED <<w, pc, call, stack, frames, files, nemits, trace, ever_set, proc>>

RunStep ==
    /\ run.status = "running"
    /\ \E trap \in BOOLEAN :
          /\ trap => Fallible(run.text, run.ip)
          /\ run' = Exec(run, trap)
    /\ UNCHANGED <<w, pc, call, stack, frames, files, nemits, trace, ever_set, proc>>

RunInsts ==
    {GetArg0,
     Ins("I32Load", "", 0, 0, ""),
     Ins("CallWasm", "", 2, 0, "g")}

NextRun ==
    \/ Export({"m1"}, {G})
    \/ EmitStep(RunInsts)
    \/ Allocate({"export"})
    \/ Return
    \/ ExportEnd
    \/ FinishStep
    \/ RunCall
    \/ RunStep

SpecRun == Init /\ [][NextRun]_vars

\* the places of the events of a kind in the log of a call
Events(kind) == {k \in 1..Len(run.log) : run.log[k][1] = kind}

\* the lengths of the scratch arrays the function asked allocate_i64_array for
ScratchOf(j) == {trace[j].calls[k].n : k \in CallsOf(j, {"allocate_i64_array"})}

\* C15: a call of a function generated with allocate_i64_array(amt) that
\* returns normally allocated once, then evaluated and bound the result, then
\* called the deallocator once with the pointer the allocator returned, size
\* amt*8 and alignment 8, and yielded the bound value last; no expression read
\* through the pointer after it was freed.
C15_CleanupAfterResult ==
    (run.status = "returned" /\ CallsOf(run.fn, {"allocate_i64_array"}) # {}) =>
        /\ Cardinality(Events("malloc")) = 1
        /\ Cardinality(Events("free")) = 1
        /\ Cardinality(Events("bind")) = 1
        /\ Events("yield") = {Len(run.log)}
        /\ run.live = {}
        /\ \A a \in Events("malloc"), b \in Events("bind"), f \in Events("free") :
              /\ a < b /\ b < f /\ f < Len(run.log)
              /\ \E amt \in ScratchOf(run.fn) :
                    SubSeq(run.log[a], 3, 4) = <<amt * 8, 8>>
              /\ SubSeq(run.log[f], 2, 4) = SubSeq(run.log[a], 2, 4)
              /\ \A u \in Events("use") : a < u /\ u < b

\* an exported function allocated a scratch array, passed it to the guest and
\* returned what it loaded through the pointer; a call of it returned
C15_Witness ==
    /\ run.status = "returned"
    /\ trace[run.fn].dir = "export"
    /\ CallsOf(run.fn, {"allocate_i64_array"}) # {}
    /\ CallsOf(run.fn, {"CallWasm"}) # {}
    /\ Events("use") # {}
    /\ Events("free") # {}


\* C16: a call of a generated function that returns early with a trap leaves
\* no scratch array allocated: every array the call obtained from the guest's
\* allocator has been handed to the guest's deallocator.
C16_NoLeakOnTrap ==
    run.status = "trapped" => run.live = {}

----------------------------------------------------------------------------
(* Canonical lists at run time: ListCanonLower, the guest, ListCanonLift *)

\* the longest host list a behaviour starts from
MaxLen == 2

CanonTypes == {"u8", "i32", "f64", "char"}

\* std::mem::size_of::<T>() of the Vec<T> the generated method works on; a
\* list of char is a String on the host, and its copy_slice runs on Vec<u8>
SizeOfT(ty) == CASE ty \in {"u8", "char"} -> 1 [] ty = "i32" -> 4 [] ty = "f64" -> 8

\* host elements, each by the bytes it is made of in host memory (little
\* endian): 0 and 255; 1 and -1; 1.0 and -0.0
ElemVals(ty) ==
    CASE ty = "u8" -> {<<0>>, <<255>>}
      [] ty = "i32" -> {<<1, 0, 0, 0>>, <<255, 255, 255, 255>>}
      [] ty = "f64" -> {<<0, 0, 0, 0, 0, 0, 240, 63>>, <<0, 0, 0, 0, 0, 0, 0, 128>>}
\* the UTF-8 encodings of 'a' and of U+00E9
CharVals == {<<97>>, <<195, 169>>}

SeqsUpTo(S, n) == UNION {[1..k -> S] : k \in 0..n}

\* the host values of list<T>: a Vec<T>, or for char a String, which is the
\* vector of the bytes of its characters
HostLists(ty) ==
    IF ty = "char"
    THEN {[k \in 1..Len(Flatten(cs)) |-> <<Flatten(cs)[k]>>] : cs \in SeqsUpTo(CharVals, MaxLen)}
    ELSE SeqsUpTo(ElemVals(ty), MaxLen)

\* the guest's linear memory, and the addresses its allocator hands out
MemSize == 8 * MaxLen + 8
Bases == {0, 8}

\* the number a generated call passes for an argument of a kind
TokenArg(text, kind) ==
    LET k == CHOOSE k \in 1..Len(text) : text[k][1] = kind IN text[k][2]

\* the statements emit() generates for the two instructions
LowerText(ty) ==
    EmitListCanonLower(Wasmtime, Ins("ListCanonLower", ty, 0, 0, "witx_malloc"),
                       << << <<"arg", 0>> >> >>).s.src
LiftText(ty) ==
    EmitListCanonLift(Wasmtime, Ins("ListCanonLift", ty, 0, 0, "witx_free"),
                      << << <<"ptr", 0>> >>, << <<"len", 0>> >> >>).results[1]

\* lib.rs:166-177: the bytes of the slice, size_of_val(slice) of them
SliceAsBytes(list) == Flatten(list)

\* lib.rs:82-96: Memory::write, out of bounds is an error
Store(mem, offset, bytes) ==
    IF offset + Len(bytes) > Len(mem) THEN [ok |-> FALSE, mem |-> mem]
    ELSE [ok |-> TRUE,
          mem |-> [a \in 1..Len(mem) |->
                      IF a > offset /\ a <= offset + Len(bytes) THEN bytes[a - offset]
                      ELSE mem[a]]]

\* lib.rs:178-204: copy_slice::<T>(memory, free, base, len, align). The vector
\* has capacity len; size bytes are copied into it; set_len(size) then makes
\* it size elements long, and those past the capacity are whatever the host
\* memory after the buffer holds (tail)
CopySlice(mem, base, len, ty, tail) ==
    LET size == len * SizeOfT(ty) IN
    IF base + size > Len(mem) THEN [ok |-> FALSE, result |-> <<>>, freed |-> <<>>]
    ELSE LET slice == SubSeq(mem, base + 1, base + size)
             copied == [k \in 1..len |->
                           SubSeq(slice, (k - 1) * SizeOfT(ty) + 1, k * SizeOfT(ty))]
         IN  [ok |-> TRUE,
              result |-> copied \o [k \in 1..size - len |-> tail],
              freed |-> <<base, size>>]

\* String::from_utf8: one- and two-byte sequences are all the inputs hold
RECURSIVE Utf8Valid(_)
Utf8Valid(bytes) ==
    CASE bytes = <<>> -> TRUE
      [] bytes # <<>> /\ bytes[1] < 128 -> Utf8Valid(Tail(bytes))
      [] bytes # <<>> /\ bytes[1] >= 194 /\ bytes[1] < 224 ->
            /\ Len(bytes) >= 2
            /\ bytes[2] >= 128 /\ bytes[2] < 192
            /\ Utf8Valid(Tail(Tail(bytes)))
      [] OTHER -> FALSE

\* a host list handed to a generated method
InitRoundTrip ==
    /\ w = Wasmtime
    /\ pc = "idle"
    /\ call = NoCall
    /\ stack = <<>>
    /\ frames = <<>>
    /\ files = <<>>
    /\ nemits = 0
    /\ trace = <<>>
    /\ ever_set = {}
    /\ proc = NoProc
    /\ \E ty \in CanonTypes : \E list \in HostLists(ty) :
          run = [status |-> "host", ty |-> ty, list |-> list,
                 mem |-> [a \in 1..MemSize |-> 0], ptr |-> 0, len |-> 0,
                 allocated |-> <<>>, freed |-> <<>>, out |-> <<>>]

\* the code of ListCanonLower: let vec = list; let ptr = malloc(vec.len() *
\* size, align)?; store(memory, ptr, slice_as_bytes(vec))?; results ptr and
\* vec.len()
RunLower ==
    /\ run.status = "host"
    /\ LET text == LowerText(run.ty)
           size == Len(run.list) * TokenArg(text, "size")
           align == TokenArg(text, "align")
       IN  \E base \in Bases :
              /\ base % align = 0
              /\ LET st == Store(run.mem, base, SliceAsBytes(run.list))
                 IN  run' = IF base + size > MemSize \/ ~st.ok
                            THEN [run EXCEPT !.status = "trapped"]
                            ELSE [run EXCEPT !.status = "lowered", !.mem = st.mem,
                                             !.ptr = base, !.len = Len(run.list),
                                             !.allocated = <<base, size>>]
    /\ UNCHANGED <<w, pc, call, stack, frames, files, nemits, trace, ever_set, proc>>

\* the guest returns the pointer and the length it was called with
GuestEcho ==
    /\ run.status = "lowered"
    /\ run' = [run EXCEPT !.status = "echoed"]
    /\ UNCHANGED <<w, pc, call, stack, frames, files, nemits, trace, ever_set, proc>>

\* the code of ListCanonLift with a deallocator: copy_slice(memory, free, ptr,
\* len, align)?, wrapped in String::from_utf8 for char
RunLift ==
    /\ run.status = "echoed"
    /\ \E tail \in (IF run.ty = "char" THEN ElemVals("u8") ELSE ElemVals(run.ty)) :
          LET r == CopySlice(run.mem, run.ptr, run.len, run.ty, tail)
              stringify == T("String::from_utf8(") \in Range(LiftText(run.ty))
          IN  run' = IF ~r.ok \/ (stringify /\ ~Utf8Valid(Flatten(r.result)))
                     THEN [run EXCEPT !.status = "trapped"]
                     ELSE [run EXCEPT !.status = "lifted", !.out = r.result,
                                      !.freed = r.freed]
    /\ UNCHANGED <<w, pc, call, stack, frames, files, nemits, trace, ever_set, proc>>

NextRoundTrip ==
    \/ RunLower
    \/ GuestEcho
    \/ RunLift

SpecRoundTrip == InitRoundTrip /\ [][NextRoundTrip]_vars

\* C17: a host list of u8, i32, f64 or char that was lowered, echoed by the
\* guest and lifted comes back as it was: as many elements, the same elements
\* in the same order.
C17_RoundTrip ==
    run.status = "lifted" => run.out = run.list

----------------------------------------------------------------------------
(* Bitflags at run time: integers are the sets of their one bits *)

\* the bits of an integer type of a width
Bits(width) == 0..width - 1

\* the integer type bitflags! declares the struct with (lib.rs:313-319) and
\* the closure casts to (lib.rs:963): IntRepr is U8, U16, U32 or U64
ReprWidth(repr) ==
    CASE repr = "u8" -> 8 [] repr = "u16" -> 16 [] repr = "u32" -> 32 [] repr = "u64" -> 64

\* the wasm integer the instruction lifts from
WasmWidth(op) == IF op \in {"BitflagsFromI64", "I64FromBitflags"} THEN 64 ELSE 32

\* flags types: the name, the repr, the number of members (const M = 1 << i
\* for i below it, lib.rs:320-327) and the instruction that lifts them
FlagsTypes ==
    {[name |-> "perms", repr |-> "u8", members |-> 2, op |-> "BitflagsFromI32"],
     [name |-> "perms", repr |-> "u8", members |-> 8, op |-> "BitflagsFromI32"],
     [name |-> "open_flags", repr |-> "u16", members |-> 16, op |-> "BitflagsFromI32"],
     [name |-> "perms", repr |-> "u32", members |-> 2, op |-> "BitflagsFromI32"],
     [name |-> "open_flags", repr |-> "u32", members |-> 32, op |-> "BitflagsFromI32"],
     [name |-> "perms", repr |-> "u64", members |-> 2, op |-> "BitflagsFromI64"],
     [name |-> "open_flags", repr |-> "u64", members |-> 64, op |-> "BitflagsFromI64"]}

\* Name::all().bits()
All(ft) == Bits(ft.members)

\* the bits the incoming integers and the flags values are made of
SomeBits == {0, 1, 7, 8, 15, 16, 31, 32, 63}

\* i64::from(x) of an i32 (sign extension) or of an i64
I64From(x, width) == IF width = 32 /\ 31 \in x THEN x \cup (32..63) ELSE x

\* x as i64 of an unsigned integer of a width (zero extension; u64 keeps its bits)
UnsignedAsI64(x, width) == x

\* x as ty of an i64: the low bits
I64As(x, repr) == x \cap Bits(ReprWidth(repr))

\* x as i32 / as i64 of the bits field: the low bits of the unsigned integer
BitsAs(x, width) == x \cap Bits(width)

\* lib.rs:147-165: validate_flags(bits, all, name, mk)
ValidateFlags(bits, all, name, repr) ==
    IF bits \ all # {}
    THEN [ok |-> FALSE, msg |-> <<"invalid flags specified for", name>>, flags |-> {}]
    ELSE [ok |-> TRUE, msg |-> <<>>, flags |-> I64As(bits, repr)]

\* the expression emit() generates for the lifting instruction of a flags type
FlagsLiftText(ft) ==
    EmitBitflags(Wasmtime, Ins(ft.op, ft.name, 0, 0, ft.repr), << << <<"arg", 0>> >> >>)
        .results[1]

\* a flags value on the host that is about to be lowered, or an integer that
\* arrives from the guest
InitFlags ==
    /\ w = Wasmtime
    /\ pc = "idle"
    /\ call = NoCall
    /\ stack = <<>>
    /\ frames = <<>>
    /\ files = <<>>
    /\ nemits = 0
    /\ trace = <<>>
    /\ ever_set = {}
    /\ proc = NoProc
    /\ \E ft \in FlagsTypes :
          \/ \E v \in SUBSET (SomeBits \cap All(ft)) :
                run = [status |-> "host", ft |-> ft, value |-> v, wasm |-> {},
                       out |-> {}, msg |-> <<>>, lowered |-> FALSE]
          \/ \E x \in SUBSET (SomeBits \cap Bits(WasmWidth(ft.op))) :
                run = [status |-> "wasm", ft |-> ft, value |-> {}, wasm |-> x,
                       out |-> {}, msg |-> <<>>, lowered |-> FALSE]

\* the code of I32FromBitflags / I64FromBitflags: (operand).bits as i32 / i64
RunFlagsLower ==
    /\ run.status = "host"
    /\ run' = [run EXCEPT !.status = "wasm", !.lowered = TRUE,
                          !.wasm = BitsAs(run.value, WasmWidth(run.ft.op))]
    /\ UNCHANGED <<w, pc, call, stack, frames, files, nemits, trace, ever_set, proc>>

\* the code of BitflagsFromI32 / BitflagsFromI64
RunFlagsLift ==
    /\ run.status = "wasm"
    /\ LET text == FlagsLiftText(run.ft)
           bits == IF T("i64::from(") \in Range(text)
                   THEN I64From(run.wasm, WasmWidth(run.ft.op)) ELSE run.wasm
           all == IF T("as i64") \in Range(text)
                  THEN UnsignedAsI64(All(run.ft), ReprWidth(run.ft.repr)) ELSE All(run.ft)
           r == ValidateFlags(bits, all, TokenArg(text, "flags"), TokenArg(text, "bits as"))
       IN  run' = [run EXCEPT !.status = IF r.ok THEN "lifted" ELSE "trapped",
                              !.out = r.flags, !.msg = r.msg]
    /\ UNCHANGED <<w, pc, call, stack, frames, files, nemits, trace, ever_set, proc>>

NextFlags ==
    \/ RunFlagsLower
    \/ RunFlagsLift

SpecFlags == InitFlags /\ [][NextFlags]_vars

\* C18: lifting a wasm integer to a flags type T traps, with "invalid flags
\* specified for `T`", exactly when the integer has a bit outside T's all
\* mask, and otherwise yields the flags with the bits of the integer; so every
\* integer that `.bits as i32/i64` produced lifts back to the flags it came from.
C18_FlagsLift ==
    run.status \in {"lifted", "trapped"} =>
        /\ run.status = "trapped" <=> run.wasm \ All(run.ft) # {}
        /\ run.status = "trapped" =>
              run.msg = <<"invalid flags specified for", CamelCase(run.ft.name)>>
        /\ run.status = "lifted" => run.out = run.wasm
        /\ run.lowered => run.status = "lifted" /\ run.out = run.value

----------------------------------------------------------------------------
(* VariantLift, and the match it generates at run time *)

VariantInsts ==
    {Ins("VariantLift", "", 2, 0, "bool"),
     Ins("VariantLift", "", 2, 0, "expected"),
     Ins("VariantLift", "", 2, 0, "option"),
     Ins("VariantLift", "", 2, 0, "enum"),
     Ins("VariantLift", "errno", 2, 0, "enum"),
     Ins("VariantLift", "errno", 2, 0, "expected")}

\* the discriminants the guest passes
Discriminants == {-1, 0, 1, 2, 3}

\* the VariantLift instructions a function was generated from
LiftsOf(j) == CallsOf(j, {"VariantLift"})

\* `match d { 0 => case, 1 => case, ..., _ => return Err(invalid_variant(name)) }`:
\* the first arm whose pattern is d, or the default arm, whose trap carries the
\* message of invalid_variant (lib.rs:126-135)
Match(text, d) ==
    LET arms == {k \in 1..Len(text) : text[k][1] = "arm" /\ text[k][2] = d} IN
    IF arms # {}
    THEN LET k == CHOOSE k \in arms : \A k2 \in arms : k <= k2
         IN  [status |-> "returned", arm |-> text[k + 1][2], msg |-> <<>>]
    ELSE [status |-> "trapped", arm |-> 0,
          msg |-> <<"invalid discriminant for", TokenArg(text, "vname")>>]

\* the guest calls an imported function generated from one VariantLift
RunVariant ==
    /\ pc = "finished"
    /\ run.status = "none"
    /\ \E j \in 1..Len(trace), d \in Discriminants :
          /\ trace[j].done
          /\ Cardinality(LiftsOf(j)) = 1
          /\ LET m == Match(trace[j].text, d)
             IN  run' = [status |-> m.status, fn |-> j, d |-> d, arm |-> m.arm,
                         msg |-> m.msg]
    /\ UNCHANGED <<w, pc, call, stack, frames, files, nemits, trace, ever_set, proc>>

NextVariants ==
    \/ Import({"m1"}, {G})
    \/ EmitStep({GetArg0})
    \/ PushBlock(VariantInsts)
    \/ FinishBlock
    \/ EmitBlocks
    \/ Return
    \/ ImportEnd
    \/ FinishStep
    \/ RunVariant

SpecVariants == Init /\ [][NextVariants]_vars

\* the name the trap is to carry for a VariantLift instruction
TrapName(i) ==
    CASE i.ty = "errno" -> "Errno"
      [] i.ty = "" /\ i.fn = "bool" -> "bool"
      [] i.ty = "" /\ i.fn = "expected" -> "Result"
      [] i.ty = "" /\ i.fn = "option" -> "Option"

\* C19: the code generated for VariantLift on a variant of n cases yields the
\* d-th case for a discriminant d in 0..n-1 and for any other discriminant
\* returns the trap "invalid discriminant for `<Name>`", <Name> being the
\* camel-cased name of a named variant and otherwise bool, Result or Option;
\* an emit() of VariantLift that returns has set needs_invalid_variant.
C19_VariantDispatch ==
    /\ \A j \in 1..Len(trace) :
          (LiftsOf(j) # {} /\ (j < Len(trace) \/ pc # "aborted")) =>
              w.needs_invalid_variant
    /\ run.status \in {"returned", "trapped"} =>
          LET i == trace[run.fn].calls[CHOOSE k \in LiftsOf(run.fn) : TRUE]
          IN  IF run.d \in 0..i.n - 1
              THEN run.status = "returned" /\ run.arm = run.d + 1
              ELSE /\ run.status = "trapped"
                   /\ run.msg = <<"invalid discriminant for", TrapName(i)>>

\* a function that lifts a named result-like variant was called with a
\* discriminant past its cases
C19_Witness ==
    /\ run.status = "trapped"
    /\ run.d = 2
    /\ \E k \in LiftsOf(run.fn) :
          /\ trace[run.fn].calls[k].ty = "errno"
          /\ trace[run.fn].calls[k].fn = "expected"
    /\ w.needs_invalid_variant

----------------------------------------------------------------------------
(* Handle tables at run time *)

\* the slots of a handle table
Indices == {0, 1}

\* the handle tables of the host: the occupied slots of each
NoTables == [h \in Handles |-> {}]
Tables(r) == IF r.status = "none" THEN NoTables ELSE r.tables

\* Table::insert: the value goes into a free slot, whose index is returned
TableInsert(t, idx) == t \cup {idx}

\* Table::remove: the entry is taken out, an absent index is an error
TableRemove(t, idx) ==
    IF idx \in t THEN [ok |-> TRUE, table |-> t \ {idx}] ELSE [ok |-> FALSE, table |-> t]

\* Table::access().get: the entry or None; the table is left as it is
TableGet(t, idx) == [ok |-> idx \in t, table |-> t]

\* the handle lookup in the text of a generated closure: the table it names,
\* the method it calls on it and the message of the trap it maps a failure to
HandleLookup(text) ==
    LET k == CHOOSE k \in 1..Len(text) : text[k] \in {T("remove("), T("get(")}
        m == CHOOSE m \in k..Len(text) :
                 text[m] \in {T("failed to remove handle"), T("invalid handle index")}
    IN  [via |-> text[k - 1][1], ty |-> text[k - 1][2], method |-> text[k][2],
         msg |-> text[m][2]]

\* what the previous call was and did, for a host that has just called
LastCall(r) ==
    IF r.status \in {"returned", "trapped"}
    THEN [fn |-> r.fn, ty |-> r.ty, idx |-> r.idx, status |-> r.status]
    ELSE [fn |-> 0, ty |-> "", idx |-> 0, status |-> "none"]

\* the host puts a resource into a table of its own
HostInsert ==
    /\ pc = "finished"
    /\ \E ty \in Handles, idx \in Indices :
          /\ idx \notin Tables(run)[ty]
          /\ run' = [status |-> "inserted", fn |-> 0, ty |-> ty, idx |-> idx, msg |-> "",
                     before |-> Tables(run),
                     tables |-> [Tables(run) EXCEPT ![ty] = TableInsert(@, idx)],
                     prev |-> LastCall(NoRun)]
    /\ UNCHANGED <<w, pc, call, stack, frames, files, nemits, trace, ever_set, proc>>

\* the guest calls an imported function whose closure lifts one handle from
\* its first argument
RunHandle ==
    /\ pc = "finished"
    /\ \E j \in 1..Len(trace), idx \in Indices :
          /\ trace[j].done
          /\ Cardinality(CallsOf(j, {"HandleBorrowedFromI32"})) = 1
          /\ LET look == HandleLookup(trace[j].text)
                 t == Tables(run)[look.ty]
                 r == IF look.method = "remove(" THEN TableRemove(t, idx)
                      ELSE TableGet(t, idx)
             IN  run' = [status |-> IF r.ok THEN "returned" ELSE "trapped",
                         fn |-> j, ty |-> look.ty, idx |-> idx,
                         msg |-> IF r.ok THEN "" ELSE look.msg,
                         before |-> Tables(run),
                         tables |-> [Tables(run) EXCEPT ![look.ty] = r.table],
                         prev |-> LastCall(run)]
    /\ UNCHANGED <<w, pc, call, stack, frames, files, nemits, trace, ever_set, proc>>

HandleCallInsts ==
    {GetArg0,
     Ins("HandleBorrowedFromI32", "file", 0, 0, "")}

NextHandleCalls ==
    \/ Import({"m1"}, {G, Close})
    \/ EmitStep(HandleCallInsts)
    \/ Return
    \/ ImportEnd
    \/ FinishStep
    \/ HostInsert
    \/ RunHandle

SpecHandleCalls == Init /\ [][NextHandleCalls]_vars

\* the function a call ran is a destructor
IsDtorCall(fn) == fn # 0 /\ trace[fn].func = "close"

\* C20: a call of an imported destructor removes the entry at the index it is
\* given, so a second call with the same index, nothing having been inserted
\* in between, traps with "failed to remove handle"; a call of any other
\* import looks the index up through the function's table-access token, leaves
\* the tables as they were, and traps, with "invalid handle index", only when
\* the index is absent.
C20_HandlePolarity ==
    run.status \in {"returned", "trapped"} =>
        LET present == run.idx \in run.before[run.ty]
            text == trace[run.fn].text
        IN  IF IsDtorCall(run.fn)
            THEN /\ run.status = "returned" <=> present
                 /\ run.tables = [run.before EXCEPT ![run.ty] = @ \ {run.idx}]
                 /\ run.status = "trapped" => run.msg = "failed to remove handle"
                 /\ ( /\ IsDtorCall(run.prev.fn)
                      /\ run.prev.status = "returned"
                      /\ run.prev.ty = run.ty
                      /\ run.prev.idx = run.idx )
                    => run.status = "trapped"
            ELSE /\ run.tables = run.before
                 /\ run.status = "trapped" <=> ~present
                 /\ run.status = "trapped" => run.msg = "invalid handle index"
                 /\ <<"let_access", run.ty>> \in Range(text)
                 /\ <<"access", run.ty>> \in Range(text)
                 /\ T("remove(") \notin Range(text)

\* the destructor was called twice in a row with the index of a resource the
\* host had inserted: the first call returned, the second trapped
C20_Witness ==
    /\ run.status = "trapped"
    /\ IsDtorCall(run.fn)
    /\ IsDtorCall(run.prev.fn)
    /\ run.prev.status = "returned"
    /\ run.prev.ty = run.ty
    /\ run.prev.idx = run.idx

----------------------------------------------------------------------------
(* finish() with opts.rustfmt set: the subprocess and its two pipes *)

\* the units a pipe holds before a write to it blocks
PipeCap == 2

\* Opts { rustfmt: true }.build() (lib.rs:66-72)
InitPretty ==
    /\ w = [Wasmtime EXCEPT !.rustfmt = TRUE]
    /\ pc = "idle"
    /\ call = NoCall
    /\ stack = <<>>
    /\ frames = <<>>
    /\ files = <<>>
    /\ nemits = 0
    /\ trace = <<>>
    /\ ever_set = {}
    /\ run = NoRun
    /\ proc = NoProc

\* how the program run as `rustfmt` goes about its streams: it reads its
\* input to the end and then writes, or writes what it has of the output
\* after each read, or writes bytes that are not UTF-8
ChildKinds == {"batch", "stream", "garbler"}

\* what the child makes of a unit of its input
Formatted(kind, unit) == IF kind = "garbler" THEN <<"bad", "utf-8">> ELSE <<"fmt", unit>>

\* Command::new("rustfmt").stdin(piped).stdout(piped).spawn() succeeded: the
\* parent is at write_all with the whole of src to write
Spawned(src, kind) ==
    [state |-> "write", src |-> src,
     pin |-> <<>>, pin_w |-> TRUE, pin_r |-> TRUE,
     pout |-> <<>>, pout_w |-> TRUE, pout_r |-> TRUE,
     out |-> <<>>, read_eof |-> FALSE, waited |-> FALSE,
     kind |-> kind, child |-> "running", status |-> "none", held |-> <<>>, eof |-> FALSE]

\* a panic of finish(): the unwinding drops the pipe ends the parent holds and
\* the Child, which has no Drop that waits
Unwound(p) == [p EXCEPT !.state = "panicked", !.pin_w = FALSE, !.pout_r = FALSE]

\* lib.rs:582-767: finish() up to the spawn; a failed spawn panics in expect()
FinishSpawn ==
    /\ pc = "idle"
    /\ w.rustfmt
    /\ \E iorder \in Orders(DOMAIN w.imports), eorder \in Orders(DOMAIN w.exports) :
          LET r == Finish(w, iorder, eorder)
          IN  /\ w' = r.s
              /\ \/ \E kind \in ChildKinds :
                       /\ proc' = Spawned(r.bindings, kind)
                       /\ pc' = "fmt"
                 \/ /\ proc' = NoProc
                    /\ pc' = "aborted"
    /\ UNCHANGED <<call, stack, frames, files, nemits, trace, ever_set, run>>

\* lib.rs:768-773: write_all() writes the next unit when the pipe has room; it
\* fails when the child has closed its end, and unwrap() panics; once all is
\* written the ChildStdin is dropped
ParentWrite ==
    /\ pc = "fmt"
    /\ proc.state = "write"
    /\ IF proc.src = <<>>
       THEN /\ proc' = [proc EXCEPT !.state = "read", !.pin_w = FALSE]
            /\ pc' = pc
       ELSE IF ~proc.pin_r
       THEN /\ proc' = Unwound(proc)
            /\ pc' = "aborted"
       ELSE /\ Len(proc.pin) < PipeCap
            /\ proc' = [proc EXCEPT !.pin = Append(@, Head(proc.src)), !.src = Tail(@)]
            /\ pc' = pc
    /\ UNCHANGED <<w, call, stack, frames, files, nemits, trace, ever_set, run>>

\* lib.rs:774-780: read_to_string() takes what the pipe holds until the child
\* has closed its end; bytes that are not UTF-8 are an error, and unwrap() panics
ParentRead ==
    /\ pc = "fmt"
    /\ proc.state = "read"
    /\ IF proc.pout # <<>>
       THEN /\ proc' = [proc EXCEPT !.out = Append(@, Head(proc.pout)), !.pout = Tail(@)]
            /\ pc' = pc
       ELSE /\ ~proc.pout_w
            /\ IF \E k \in 1..Len(proc.out) : proc.out[k][1] = "bad"
               THEN /\ proc' = [Unwound(proc) EXCEPT !.read_eof = TRUE]
                    /\ pc' = "aborted"
               ELSE /\ proc' = [proc EXCEPT !.state = "wait", !.read_eof = TRUE,
                                            !.pout_r = FALSE]
                    /\ pc' = pc
    /\ UNCHANGED <<w, call, stack, frames, files, nemits, trace, ever_set, run>>

\* lib.rs:781-784: child.wait() returns once the child has exited;
\* assert!(status.success()); files.push("bindings.rs", &src)
ParentWait ==
    /\ pc = "fmt"
    /\ proc.state = "wait"
    /\ proc.child = "exited"
    /\ proc' = [proc EXCEPT !.state = "done", !.waited = TRUE]
    /\ IF proc.status = "success"
       THEN pc' = "finished" /\ files' = proc.out
       ELSE pc' = "aborted" /\ files' = files
    /\ UNCHANGED <<w, call, stack, frames, nemits, trace, ever_set, run>>

\* the child wants its next read: a streaming child only once it has written
\* what it holds
ChildReads(p) == ~p.eof /\ (p.kind = "stream" => p.held = <<>>)

\* the child reads a unit of its standard input, or finds it closed
ChildRead ==
    /\ proc.state # "none"
    /\ proc.child = "running"
    /\ ChildReads(proc)
    /\ IF proc.pin # <<>>
       THEN proc' = [proc EXCEPT !.pin = Tail(@),
                                 !.held = Append(@, Formatted(proc.kind, Head(proc.pin)))]
       ELSE /\ ~proc.pin_w
            /\ proc' = [proc EXCEPT !.eof = TRUE]
    /\ UNCHANGED <<w, pc, call, stack, frames, files, nemits, trace, ever_set, run>>

\* the process is gone: its ends of the pipes are closed
Exited(p, status) ==
    [p EXCEPT !.child = "exited", !.status = status, !.pin_r = FALSE, !.pout_w = FALSE]

\* the child writes a unit to its standard output when the pipe has room, and
\* dies of it when the parent has closed the other end
ChildWrite ==
    /\ proc.state # "none"
    /\ proc.child = "running"
    /\ ~ChildReads(proc)
    /\ proc.held # <<>>
    /\ IF ~proc.pout_r
       THEN proc' = Exited(proc, "failure")
       ELSE /\ Len(proc.pout) < PipeCap
            /\ proc' = [proc EXCEPT !.pout = Append(@, Head(proc.held)), !.held = Tail(@)]
    /\ UNCHANGED <<w, pc, call, stack, frames, files, nemits, trace, ever_set, run>>

\* the child has written all it had and exits, with the status it chooses
ChildExit ==
    /\ proc.state # "none"
    /\ proc.child = "running"
    /\ proc.eof
    /\ proc.held = <<>>
    /\ \E status \in {"success", "failure"} : proc' = Exited(proc, status)
    /\ UNCHANGED <<w, pc, call, stack, frames, files, nemits, trace, ever_set, run>>

\* the child is killed, or fails, wherever it is
ChildCrash ==
    /\ proc.state # "none"
    /\ proc.child = "running"
    /\ proc' = Exited(proc, "failure")
    /\ UNCHANGED <<w, pc, call, stack, frames, files, nemits, trace, ever_set, run>>

\* everything but a crash of the child
PrettySteps ==
    \/ TypeBuiltin
    \/ Import({"m1"}, {G})
    \/ Return
    \/ ImportEnd
    \/ FinishSpawn
    \/ ParentWrite
    \/ ParentRead
    \/ ParentWait
    \/ ChildRead
    \/ ChildWrite
    \/ ChildExit

NextPretty ==
    \/ PrettySteps
    \/ ChildCrash

SpecPretty == InitPretty /\ [][NextPretty]_vars

\* C21: however finish() stops once it has spawned the formatter, it has
\* closed the child's input pipe, read its output pipe to the end and awaited
\* its exit status; a child that exited without success leaves generation
\* aborted and no bindings.rs.
C21_SubprocessScoped ==
    (pc \in {"finished", "aborted"} /\ proc.state # "none") =>
        /\ ~proc.pin_w
        /\ proc.read_eof
        /\ proc.waited
        /\ proc.status = "failure" => pc = "aborted" /\ files = <<>>


\* the generator, finish() and the child each take their next step when they
\* can; nothing obliges the child to crash
SpecPrettyLive == InitPretty /\ [][NextPretty]_vars /\ WF_vars(PrettySteps)

\* C27: once finish() has spawned the formatter it reaches the wait for the
\* exit status and returns or aborts, whatever the order in which the two
\* processes take their steps over the bounded pipes and whether or not the
\* child writes output before it has read all of its input.
C27_FinishTerminates ==
    (pc = "fmt") ~> (pc \in {"finished", "aborted"})

----------------------------------------------------------------------------
(* Blocks of nested constructs *)

\* the blocks the stream of one function may open
MaxBlocks == 4

NestInsts ==
    {GetArg0,
     Ins("VariantLower", "", 2, 1, "bool"),
     Ins("VariantLift", "", 2, 0, "bool"),
     Ins("ListLower", "i32", 0, 0, "witx_malloc"),
     Ins("ListLift", "i32", 0, 0, "")}

\* emit() of an operand of the innermost open block, or of the function body
NestOperand ==
    /\ pc = "call"
    /\ InBody
    /\ Len(stack) - Base < 2
    /\ Apply(GetArg0, Emit(w, GetArg0, <<>>))
    /\ UNCHANGED <<frames, nemits>>

\* push_block(): the first block of a new construct, whose operands the stream
\* has pushed and which may stand inside an open block of another, or the next
\* block of the construct just left
NestPush ==
    /\ pc = "call"
    /\ nemits < MaxBlocks
    /\ \/ /\ InBody
          /\ \E i \in NestInsts :
                /\ i.op \in BlockOps
                /\ Len(stack) - Base = InArity(i)
                /\ frames' = Append(frames, [inst |-> i, done |-> 0, open |-> TRUE,
                                             base |-> Len(stack)])
       \/ /\ ~InBody
          /\ frames[Len(frames)].done < NBlocks(frames[Len(frames)].inst)
          /\ frames' = [frames EXCEPT ![Len(frames)].open = TRUE,
                                      ![Len(frames)].base = Len(stack)]
    /\ w' = PushBlockOp(w)
    /\ Log(Ins("push_block", "", 0, 0, ""))
    /\ nemits' = nemits + 1
    /\ UNCHANGED <<pc, call, stack, files, ever_set, run, proc>>

NextNest ==
    \/ Import({"m1"}, {G})
    \/ NestOperand
    \/ NestPush
    \/ FinishBlock
    \/ EmitBlocks

SpecNest == Init /\ [][NextNest]_vars

\* the construct whose instruction this step emits, and the blocks it has to take
Closing == frames[Len(frames)].inst
Taken == SubSeq(w.blocks, Len(w.blocks) - NBlocks(Closing) + 1, Len(w.blocks))

\* the text the instruction of this step produces
Written ==
    IF Closing.op = "VariantLift" THEN stack'[Len(stack')]
    ELSE SubSeq(w'.src, Len(w.src) + 1, Len(w'.src))

\* part stands in text from position p on
Contains(text, part, p) ==
    /\ p + Len(part) - 1 <= Len(text)
    /\ SubSeq(text, p, p + Len(part) - 1) = part

\* a step in which emit() of a VariantLower, VariantLift, ListLower or ListLift
\* returns
Takes == pc = "call" /\ pc' = "call" /\ Len(frames') < Len(frames)

\* C22: VariantLower and VariantLift take exactly the last n entries of the
\* block-results list (n the number of cases) and put the i-th of them, in the
\* order they were finished, into the arm of the i-th case; ListLower and
\* ListLift take exactly the last entry as the loop body; the entries finished
\* earlier, which belong to an enclosing construct, stay in place and in order.
C22_BlocksPairedInOrder ==
    [][Takes =>
        /\ Len(w.blocks) >= NBlocks(Closing)
        /\ w'.blocks = SubSeq(w.blocks, 1, Len(w.blocks) - NBlocks(Closing))
        /\ Closing.op = "VariantLower" =>
              \A j \in 1..Closing.n :
                  \E p \in 1..Len(Written) :
                      /\ Written[p][1] = "arm"
                      /\ Written[p][2] = j
                      /\ Contains(Written, Taken[j], p + 1)
        /\ Closing.op = "VariantLift" =>
              \A j \in 1..Closing.n :
                  \E p \in 1..Len(Written) - 1 :
                      /\ Written[p][1] = "arm"
                      /\ Written[p][2] = j - 1
                      /\ Written[p + 1][1] = "case"
                      /\ Written[p + 1][2] = j
                      /\ Contains(Written, Taken[j], p + 2)
        /\ Closing.op \in {"ListLower", "ListLift"} =>
              \E p \in 1..Len(Written) :
                  /\ Written[p][1] = "txt"
                  /\ Written[p][2] \in {"for (i, e) in", "for i in 0.."}
                  /\ \E q \in p..Len(Written) : Contains(Written, Taken[1], q)
    ]_vars

\* a variant inside the open second block of an enclosing construct has just
\* taken its two blocks, which finished with different operands, and the
\* enclosing construct's first block is still in the list
C22_Witness ==
    /\ pc = "call"
    /\ frames # <<>>
    /\ frames[Len(frames)].open
    /\ frames[Len(frames)].done >= 1
    /\ w.blocks # <<>>
    /\ LET calls == trace[Len(trace)].calls
           L == Len(calls)
       IN  /\ L > 4
           /\ calls[L].op \in {"VariantLower", "VariantLift"}
           /\ calls[L - 1].op = "finish_block"
           /\ \E a \in 1..(L - 2) :
                 /\ calls[a].op = "finish_block"
                 /\ calls[a].n # calls[L - 1].n
                 /\ \A b \in a..L - 1 : calls[b].op \notin BlockOps

----------------------------------------------------------------------------
(* The order of the prologue bindings *)

Reverse(s) == [j \in 1..Len(s) |-> s[Len(s) + 1 - j]]

\* the token that opens a prologue binding
IsBinding(t) == t[1] \in {"let", "let_access", "let_func"}

\* the bindings import() inserts for the state the stream left, in the order in
\* which it issues the inserts (lib.rs:440-488); drained is the order in which
\* needs_functions.drain() yields its entries
Issued(s, drained) ==
    (IF s.needs_guest_memory THEN << <<"let", "guest_memory">> >> ELSE <<>>)
    \o (IF s.needs_memory \/ s.needs_guest_memory THEN << <<"let", "memory">> >> ELSE <<>>)
    \o [j \in 1..Cardinality(s.handles_for_func) |->
            <<"let_access", SortedHandles(s.handles_for_func, HandleOrder)[j]>>]
    \o [j \in 1..Len(drained) |-> <<"let_func", drained[j]>>]

\* a step in which import() returns after the stream of the function
ImportReturns == pc = "ret" /\ call.dir = "import" /\ pc' = "idle"

\* the transduced body, as func.call() left it behind the closure header
Body == SubSeq(w.src, call.pos + 1, Len(w.src))

\* the closure this step records, and what it holds between header and body
Closure == w'.imports[call.module][Len(w'.imports[call.module])].closure
Prologue == SubSeq(Closure, call.pos + 1, Len(Closure) - Len(Body) - 1)

\* C23 as stated: the prologue bindings of an import closure appear in the
\* textual order in which import() issued their inserts.
C23_PrologueInIssueOrder ==
    [][ImportReturns =>
        \E drained \in Orders(DOMAIN w.needs_functions) :
            SelectSeq(Prologue, IsBinding) = Issued(w, drained)
    ]_vars

\* C23 (amended): every insert goes to the same checkpoint, so the prologue
\* bindings of an import closure appear in the reverse of the order in which
\* import() issued their inserts; the prologue stands between the closure
\* header and the transduced body, which is unchanged; and the memory binding
\* precedes the guest_memory initialization that reads it.
C23_PrologueReversesIssueOrder ==
    [][ImportReturns =>
        /\ Closure = SubSeq(w.src, 1, call.pos) \o Prologue \o Body \o <<T("}")>>
        /\ \E drained \in Orders(DOMAIN w.needs_functions) :
              SelectSeq(Prologue, IsBinding) = Reverse(Issued(w, drained))
        /\ \A p \in 1..Len(Prologue) :
              Prologue[p] = <<"let", "guest_memory">> =>
                  \E q \in 1..p - 1 : Prologue[q] = <<"let", "memory">>
    ]_vars

\* import() returned from a function whose closure binds guest_memory, memory
\* and a guest function
C23_Witness ==
    /\ pc = "idle"
    /\ trace # <<>>
    /\ LET t == trace[Len(trace)]
       IN  /\ t.dir = "import"
           /\ t.done
           /\ \E p, q, r \in 1..Len(t.text) :
                 /\ t.text[p] = <<"let", "guest_memory">>
                 /\ t.text[q] = <<"let", "memory">>
                 /\ t.text[r][1] = "let_func"

----------------------------------------------------------------------------
(* The emission buffer across import() and export() *)

\* the functions a map of modules holds for a module
FuncsIn(map, module, dir) ==
    IF module \notin DOMAIN map THEN <<>>
    ELSE IF dir = "import" THEN map[module] ELSE map[module].funcs

\* C24: import() and export() leave the emission buffer unchanged: they set
\* the text accumulated before the call aside when they start, keep it aside
\* while the stream runs, and put exactly it back when they return; the text of
\* the function goes into the imports map (import) or the exports map (export)
\* as one more entry of the module, and the other map and the files are untouched.
C24_BufferUnchanged ==
    [][/\ (pc = "idle" /\ pc' = "call") => call'.prev = w.src /\ w'.src # w.src
       /\ (pc \in {"call", "ret"} /\ pc' \in {"call", "ret"}) => call'.prev = call.prev
       /\ (pc = "ret" /\ pc' = "idle") =>
             /\ w'.src = call.prev
             /\ files' = files
             /\ LET mine == IF call.dir = "import" THEN w.imports ELSE w.exports
                    mine2 == IF call.dir = "import" THEN w'.imports ELSE w'.exports
                    before == FuncsIn(mine, call.module, call.dir)
                    after == FuncsIn(mine2, call.module, call.dir)
                IN  /\ call.dir = "import" => w'.exports = w.exports
                    /\ call.dir = "export" => w'.imports = w.imports
                    /\ Len(after) = Len(before) + 1
                    /\ SubSeq(after, 1, Len(before)) = before
                    /\ \A m \in DOMAIN mine \ {call.module} :
                          m \in DOMAIN mine2 /\ mine2[m] = mine[m]
    ]_vars

\* an import and an export have returned and the buffer holds the type
\* declaration printed before them
C24_Witness ==
    /\ pc = "idle"
    /\ w.src # <<>>
    /\ \E i, j \in 1..Len(trace) :
          /\ trace[i].dir = "import" /\ trace[i].done /\ trace[i].calls # <<>>
          /\ trace[j].dir = "export" /\ trace[j].done /\ trace[j].calls # <<>>

----------------------------------------------------------------------------
(* The names a generated function refers to *)

NameInsts ==
    {GetArg0,
     Ins("I32Load", "", 0, 0, ""),
     Ins("HandleBorrowedFromI32", "file", 0, 0, ""),
     Ins("ListCanonLower", "u8", 0, 0, "witx_malloc"),
     Ins("ListCanonLift", "u8", 0, 0, "witx_free"),
     Ins("ListCanonLift", "u8", 0, 0, ""),
     Ins("CallWasm", "", 2, 0, "g")}

\* the stream asks for a scratch array where it prepares the return area of a
\* call into the guest, which is the export direction
NextNames ==
    \/ Import({"m1"}, {G})
    \/ Export({"m1"}, {G})
    \/ EmitStep(NameInsts)
    \/ Allocate({"export"})
    \/ Return
    \/ ImportEnd
    \/ ExportEnd

SpecNames == Init /\ [][NextNames]_vars

\* every occurrence of the reference in the text comes after the binding
BoundBefore(text, ref, binding) ==
    \A k \in At(text, ref) : \E b \in At(text, binding) : b < k

\* the names of one kind (func, access, self) the text refers to
NamesOf(text, kind) == {text[k][2] : k \in {k \in 1..Len(text) : text[k][1] = kind}}

----------------------------------------------------------------------------
(* The iteration order of the maps *)

OrderInsts ==
    {GetArg0,
     Ins("ListCanonLower", "u8", 0, 0, "witx_malloc"),
     Ins("ListCanonLift", "u8", 0, 0, "witx_free")}

NextOrder ==
    \/ Import(Modules, {G})
    \/ Export(Modules, {G})
    \/ EmitStep(OrderInsts)
    \/ Allocate({"export"})
    \/ Return
    \/ ImportEnd
    \/ ExportEnd
    \/ FinishStep

SpecOrder == Init /\ [][NextOrder]_vars

\* C26: generation is deterministic: what import() and export() record for a
\* function and what finish() writes as bindings.rs are the same for every
\* order in which needs_functions, imports and exports may be iterated, so two
\* runs over the same calls produce the same text, the order of the modules
\* and of the function-handle bindings of a prologue included.
C26_Deterministic ==
    [][/\ (pc = "ret" /\ pc' = "idle" /\ call.dir = "import") =>
             \A drained \in Orders(DOMAIN w.needs_functions) :
                 w' = ImportLeave(w, call, drained).s
       /\ (pc = "ret" /\ pc' = "idle" /\ call.dir = "export") =>
             \A drained \in Orders(DOMAIN w.needs_functions) :
                 w' = ExportLeave(w, call, drained).s
       /\ (pc = "idle" /\ pc' = "finished") =>
             \A iorder \in Orders(DOMAIN w.imports), eorder \in Orders(DOMAIN w.exports) :
                 files' = Finish(w, iorder, eorder).bindings
    ]_vars

====
